---- MODULE Spec2Model ----
(***************************************************************************)
(* HDD (Human Digital DNA) 1.1: the codec of src/hdd-core.js and the       *)
(* analytics engine of src/hdd-api.js.                                     *)
(*                                                                         *)
(* Representation.  A JavaScript string is a sequence of one-character     *)
(* strings.  A JavaScript value is a tagged record:                        *)
(*   [t |-> "null"]                     null / undefined                   *)
(*   [t |-> "bool", b |-> BOOLEAN]                                         *)
(*   [t |-> "num",  m |-> Int, e |-> Nat]   the decimal m / 10^e, with m   *)
(*                                      not divisible by 10 unless e = 0   *)
(*   [t |-> "nan"]                      the number NaN                     *)
(*   [t |-> "str",  s |-> string]                                          *)
(*   [t |-> "date", ms |-> Int]         a Date instance                    *)
(*   [t |-> "arr",  a |-> Seq(value)]                                      *)
(*   [t |-> "obj",  p |-> Seq([k : string, v : value])]  own enumerable    *)
(*                                      properties in insertion order      *)
(* Numbers are exact decimals: floating-point rounding is not modelled.    *)
(***************************************************************************)
EXTENDS Integers, Sequences, FiniteSets, TLC

Max(S) == CHOOSE x \in S : \A y \in S : y <= x
Min(S) == CHOOSE x \in S : \A y \in S : x <= y

\* the k-th smallest element of a finite set of integers
Nth(S, k) == CHOOSE x \in S : Cardinality({y \in S : y < x}) = k - 1

(***************************************************************************)
(* Values                                                                  *)
(***************************************************************************)
Null == [t |-> "null"]
NaN == [t |-> "nan"]
Bool(b) == [t |-> "bool", b |-> b]
Str(s) == [t |-> "str", s |-> s]
Date(ms) == [t |-> "date", ms |-> ms]
Arr(a) == [t |-> "arr", a |-> a]
Obj(p) == [t |-> "obj", p |-> p]
Prop(k, v) == [k |-> k, v |-> v]

RECURSIVE Pow10(_)
Pow10(n) == IF n = 0 THEN 1 ELSE 10 * Pow10(n - 1)

\* the canonical decimal m / 10^e
RECURSIVE Dec(_, _)
Dec(m, e) ==
    IF m = 0 THEN [t |-> "num", m |-> 0, e |-> 0]
    ELSE IF e > 0 /\ m % 10 = 0 THEN Dec(m \div 10, e - 1)
    ELSE [t |-> "num", m |-> m, e |-> e]

Num(n) == Dec(n, 0)

\* typeof v
typeof(v) ==
    CASE v.t = "num" \/ v.t = "nan" -> "number"
      [] v.t = "bool" -> "boolean"
      [] v.t = "str" -> "string"
      [] OTHER -> "object"

(***************************************************************************)
(* Text primitives of the JavaScript runtime                               *)
(***************************************************************************)
IsDigit(c) == c \in {"0", "1", "2", "3", "4", "5", "6", "7", "8", "9"}
DigitChar(d) == <<"0", "1", "2", "3", "4", "5", "6", "7", "8", "9">>[d + 1]
DigitVal(c) == CHOOSE d \in 0..9 : DigitChar(d) = c
IsSpace(c) == c = " "

RECURSIVE natToString(_)
natToString(n) ==
    IF n < 10 THEN <<DigitChar(n)>> ELSE natToString(n \div 10) \o <<DigitChar(n % 10)>>

\* the digits of n, left-padded with zeros to width w
RECURSIVE padDigits(_, _)
padDigits(n, w) ==
    IF w = 0 THEN <<>> ELSE padDigits(n \div 10, w - 1) \o <<DigitChar(n % 10)>>

\* String(x) for a number x
numberToString(x) ==
    IF x.t = "nan" THEN <<"N", "a", "N">>
    ELSE LET a == IF x.m < 0 THEN -x.m ELSE x.m
             sign == IF x.m < 0 THEN <<"-">> ELSE <<>>
             ip == natToString(a \div Pow10(x.e))
             fp == IF x.e = 0 THEN <<>> ELSE <<".">> \o padDigits(a % Pow10(x.e), x.e)
         IN sign \o ip \o fp

\* the value of the digit string s[i..j] (0 when empty)
RECURSIVE digitsValue(_, _, _)
digitsValue(s, i, j) ==
    IF j < i THEN 0 ELSE 10 * digitsValue(s, i, j - 1) + DigitVal(s[j])

\* the index after the run of digits that starts at i
digitRunEnd(s, i) == Min({j \in i..(Len(s) + 1) : j = Len(s) + 1 \/ ~IsDigit(s[j])})

\* s.trim(), as the pair of bounds of the kept slice
trimLo(s) == Min({j \in 1..(Len(s) + 1) : j = Len(s) + 1 \/ ~IsSpace(s[j])})
trimHi(s) == Max({j \in 0..Len(s) : j = 0 \/ ~IsSpace(s[j])})
trim(s) == SubSeq(s, trimLo(s), trimHi(s))

\* the decimal literal [+-]? (digits (. digits?)? | . digits) occupying exactly
\* s[i..j]; NaN when s[i..j] is not of that form.  lenient selects the
\* StringNumericLiteral grammar of Number() (a leading '+', '1.', '.5' and
\* leading zeros are accepted) instead of the stricter JSON number grammar.
decimalLiteral(s, i, j, lenient) ==
    LET neg == i <= j /\ s[i] = "-"
        pos == lenient /\ i <= j /\ s[i] = "+"
        \* the literal with its integer digits in s[a..b-1] and, after a dot
        \* at b, its fraction digits in s[b+1..c-1]
        literal(a, b, c, dot) ==
            LET fracLen == IF dot THEN c - (b + 1) ELSE 0
                wellFormed ==
                    /\ c = j + 1
                    /\ b > a \/ (lenient /\ fracLen > 0)
                    /\ dot => (fracLen > 0 \/ lenient)
                    /\ lenient \/ ~(b - a > 1 /\ s[a] = "0")
                mag == digitsValue(s, a, b - 1) * Pow10(fracLen)
                       + (IF dot THEN digitsValue(s, b + 1, c - 1) ELSE 0)
            IN IF ~wellFormed THEN NaN
               ELSE Dec(IF neg THEN -mag ELSE mag, fracLen)
        fraction(a, b, dot) ==
            literal(a, b, IF dot THEN Min({digitRunEnd(s, b + 1), j + 1}) ELSE b, dot)
        integer(a, b) == fraction(a, b, b <= j /\ s[b] = ".")
        unsigned(a) == integer(a, Min({digitRunEnd(s, a), j + 1}))
    IN unsigned(IF neg \/ pos THEN i + 1 ELSE i)

\* Number(s) for a string s: surrounding white space is ignored and the empty
\* string is 0.  Hexadecimal, exponent and Infinity literals need characters
\* (x, e, I) that no text of the model contains next to a digit.
Number(s) ==
    IF trimLo(s) > trimHi(s) THEN Num(0)
    ELSE decimalLiteral(s, trimLo(s), trimHi(s), TRUE)

\* parseInt(s, 10): leading white space, an optional sign, then the longest
\* prefix of digits; NaN when there is no digit
parseInt(s) ==
    LET i == trimLo(s)
        signed == i <= Len(s) /\ s[i] \in {"-", "+"}
        a == IF signed THEN i + 1 ELSE i
        b == IF a > Len(s) THEN a ELSE digitRunEnd(s, a)
    IN IF b = a THEN NaN
       ELSE Num((IF signed /\ s[i] = "-" THEN -1 ELSE 1) * digitsValue(s, a, b - 1))

startsWith(s, c) == Len(s) >= 1 /\ s[1] = c
endsWith(s, c) == Len(s) >= 1 /\ s[Len(s)] = c

\* s.charAt(i), 1-based: the empty string outside the text
charAt(s, i) == IF i >= 1 /\ i <= Len(s) THEN s[i] ELSE ""

\* the concatenation of f[lo], ..., f[hi], each a string
RECURSIVE concatRange(_, _, _)
concatRange(f, lo, hi) ==
    IF lo > hi THEN <<>>
    ELSE IF lo = hi THEN f[lo]
    ELSE LET mid == (lo + hi) \div 2
         IN concatRange(f, lo, mid) \o concatRange(f, mid + 1, hi)

(***************************************************************************)
(* The separator and its escape token                                      *)
(***************************************************************************)
SEPARATOR == <<":", ":">>
ESCAPE_TOKEN == <<"\\", ":">>

\* the number of characters c that end just before position j, none of them
\* before position lo: found by looking back over w, 2w, 4w, ... characters
RECURSIVE runBefore(_, _, _, _, _)
runBefore(s, c, lo, j, w) ==
    LET counted(from, others) ==
            IF others # {} THEN j - 1 - Max(others)
            ELSE IF from = lo THEN j - lo
            ELSE runBefore(s, c, lo, j, 2 * w)
        within(from) == counted(from, {k \in from..(j - 1) : s[k] # c})
    IN within(IF j - w < lo THEN lo ELSE j - w)

\* the number of ':' immediately before position i
colonRunBefore(s, i) == runBefore(s, ":", 1, i, 1)

\* a match of /::/g starts at i: matches are taken left to right and do not
\* overlap, so inside a run of colons they start at every second position
separatorAt(s, i) ==
    /\ charAt(s, i) = ":"
    /\ charAt(s, i + 1) = ":"
    /\ colonRunBefore(s, i) % 2 = 0

\* s.replace(new RegExp(SEPARATOR, 'g'), '\\:'); both sides have two
\* characters and the second one is ':' in both
escapeSeparator(s) ==
    SubSeq([i \in 1..Len(s) |-> IF separatorAt(s, i) THEN ESCAPE_TOKEN[1] ELSE s[i]],
           1, Len(s))

\* s.replace(/\\:/g, SEPARATOR)
unescapeSeparator(s) ==
    SubSeq([i \in 1..Len(s) |->
               IF s[i] = ESCAPE_TOKEN[1] /\ charAt(s, i + 1) = ESCAPE_TOKEN[2]
               THEN SEPARATOR[1] ELSE s[i]],
           1, Len(s))

\* s.split(SEPARATOR)
split(s) ==
    LET M == {i \in 1..Len(s) : separatorAt(s, i)}
        n == Cardinality(M)
        first(k) == IF k = 1 THEN 1 ELSE Nth(M, k - 1) + 2
        last(k) == IF k = n + 1 THEN Len(s) ELSE Nth(M, k) - 1
    IN [k \in 1..(n + 1) |-> SubSeq(s, first(k), last(k))]

\* parts.join(SEPARATOR)
RECURSIVE join(_)
join(parts) ==
    IF Len(parts) = 0 THEN <<>>
    ELSE IF Len(parts) = 1 THEN parts[1]
    ELSE parts[1] \o SEPARATOR \o join(Tail(parts))

(***************************************************************************)
(* Objects and JSON                                                        *)
(***************************************************************************)
\* k is a canonical array index ("0", "7", "12"): such keys are enumerated
\* first, in ascending numeric order, before the other keys
isArrayIndex(k) ==
    /\ Len(k) >= 1
    /\ Len(k) <= 9
    /\ \A i \in 1..Len(k) : IsDigit(k[i])
    /\ Len(k) > 1 => k[1] # "0"

keyBefore(k1, k2) ==
    /\ isArrayIndex(k1)
    /\ isArrayIndex(k2) => digitsValue(k1, 1, Len(k1)) < digitsValue(k2, 1, Len(k2))

hasKey(p, k) == \E i \in 1..Len(p) : p[i].k = k

\* obj[k] = v on the property list p
objPut(p, k, v) ==
    IF hasKey(p, k)
    THEN [i \in 1..Len(p) |-> IF p[i].k = k THEN Prop(k, v) ELSE p[i]]
    ELSE LET at == Min({i \in 1..(Len(p) + 1) : i = Len(p) + 1 \/ keyBefore(k, p[i].k)})
         IN SubSeq(p, 1, at - 1) \o <<Prop(k, v)>> \o SubSeq(p, at, Len(p))

\* the quoted JSON form of a string: '"' and '\' get a backslash
quote(s) ==
    IF \A i \in 1..Len(s) : s[i] \notin {"\"", "\\"}
    THEN <<"\"">> \o s \o <<"\"">>
    ELSE <<"\"">>
         \o concatRange([i \in 1..Len(s) |->
                IF s[i] \in {"\"", "\\"} THEN <<"\\", s[i]>> ELSE <<s[i]>>], 1, Len(s))
         \o <<"\"">>

\* JSON.stringify(v).  A Date never reaches it: encodeValue turns every Date
\* into text first and JSON.parse produces none.
RECURSIVE stringify(_)
stringify(v) ==
    CASE v.t = "null" -> <<"n", "u", "l", "l">>
      [] v.t = "nan" -> <<"n", "u", "l", "l">>
      [] v.t = "bool" -> IF v.b THEN <<"t", "r", "u", "e">> ELSE <<"f", "a", "l", "s", "e">>
      [] v.t = "num" -> numberToString(v)
      [] v.t = "str" -> quote(v.s)
      [] v.t = "arr" ->
            <<"[">>
            \o concatRange([i \in 1..Len(v.a) |->
                   (IF i > 1 THEN <<",">> ELSE <<>>) \o stringify(v.a[i])], 1, Len(v.a))
            \o <<"]">>
      [] v.t = "obj" ->
            <<"{">>
            \o concatRange([i \in 1..Len(v.p) |->
                   (IF i > 1 THEN <<",">> ELSE <<>>)
                   \o quote(v.p[i].k) \o <<":">> \o stringify(v.p[i].v)], 1, Len(v.p))
            \o <<"}">>

\* a parse result: ok, the value and the position after it
Parsed(v, p) == [ok |-> TRUE, v |-> v, p |-> p]
SyntaxError == [ok |-> FALSE, v |-> Null, p |-> 0]

skipWs(s, i) == Min({j \in i..(Len(s) + 1) : j = Len(s) + 1 \/ ~IsSpace(s[j])})

\* a JSON string starting with the '"' at i.  A '\' escapes the character
\* after it: of a run of n '\' the string keeps n \div 2, and when n is odd
\* the character after the run is escaped.  Of the escapes only \" \\ \/ are
\* recognised; the others need a letter after a backslash inside a quoted
\* string, which no text of the model has.
parseString(s, i) ==
    LET escapes(k) == runBefore(s, "\\", i + 1, k, 1)
        closedAt(j) ==
            LET plain == \A k \in (i + 1)..(j - 1) : s[k] # "\\"
                valid == \A k \in (i + 1)..(j - 1) :
                            (s[k] # "\\" /\ escapes(k) % 2 = 1) => s[k] \in {"\"", "/"}
                body == IF plain THEN SubSeq(s, i + 1, j - 1)
                        ELSE concatRange([k \in (i + 1)..j |->
                                 IF s[k] = "\\" THEN <<>>
                                 ELSE [x \in 1..(escapes(k) \div 2) |-> "\\"]
                                      \o (IF k = j THEN <<>> ELSE <<s[k]>>)], i + 1, j)
            IN IF ~plain /\ ~valid THEN SyntaxError
               ELSE Parsed(Str(body), j + 1)
        closed(closing) == IF closing = {} THEN SyntaxError ELSE closedAt(Min(closing))
    IN closed({j \in (i + 1)..Len(s) : s[j] = "\"" /\ escapes(j) % 2 = 0})

matchWord(s, i, w) == i + Len(w) - 1 <= Len(s) /\ SubSeq(s, i, i + Len(w) - 1) = w

\* a JSON number starting at i
parseNumber(s, i) ==
    LET a == IF s[i] = "-" THEN i + 1 ELSE i
        b == IF a > Len(s) THEN a ELSE digitRunEnd(s, a)
        number(x, c) == IF x.t = "nan" THEN SyntaxError ELSE Parsed(x, c)
        upTo(c) == number(decimalLiteral(s, i, c - 1, FALSE), c)
        after(d) == upTo(IF charAt(s, d) = "." THEN digitRunEnd(s, d + 1) ELSE d)
    IN after(b)

RECURSIVE parseValue(_, _), parseMembers(_, _, _), parseElements(_, _, _)
parseValue(s, i0) ==
    LET i == skipWs(s, i0)
        c == charAt(s, i)
    IN CASE c = "{" ->
                IF charAt(s, skipWs(s, i + 1)) = "}"
                THEN Parsed(Obj(<<>>), skipWs(s, i + 1) + 1)
                ELSE parseMembers(s, skipWs(s, i + 1), <<>>)
         [] c = "[" ->
                IF charAt(s, skipWs(s, i + 1)) = "]"
                THEN Parsed(Arr(<<>>), skipWs(s, i + 1) + 1)
                ELSE parseElements(s, i + 1, <<>>)
         [] c = "\"" -> parseString(s, i)
         [] c = "-" \/ IsDigit(c) -> parseNumber(s, i)
         [] matchWord(s, i, <<"t", "r", "u", "e">>) -> Parsed(Bool(TRUE), i + 4)
         [] matchWord(s, i, <<"f", "a", "l", "s", "e">>) -> Parsed(Bool(FALSE), i + 5)
         [] matchWord(s, i, <<"n", "u", "l", "l">>) -> Parsed(Null, i + 4)
         [] OTHER -> SyntaxError

\* the members of an object from the key at i on; acc holds those before it
parseMembers(s, i, acc) ==
    LET next(val, after, acc2) ==
            IF ~val.ok THEN SyntaxError
            ELSE IF charAt(s, after) = "}" THEN Parsed(Obj(acc2), after + 1)
            ELSE IF charAt(s, after) = "," THEN parseMembers(s, skipWs(s, after + 1), acc2)
            ELSE SyntaxError
        member(key, val) == next(val, skipWs(s, val.p), objPut(acc, key.v.s, val.v))
        colonAt(key, colon) ==
            member(key, IF key.ok /\ charAt(s, colon) = ":"
                        THEN parseValue(s, colon + 1) ELSE SyntaxError)
        keyed(key) == colonAt(key, skipWs(s, key.p))
    IN keyed(IF charAt(s, i) = "\"" THEN parseString(s, i) ELSE SyntaxError)

\* the elements of an array from position i on; acc holds those before it
parseElements(s, i, acc) ==
    LET next(val, after) ==
            IF ~val.ok THEN SyntaxError
            ELSE IF charAt(s, after) = "]" THEN Parsed(Arr(Append(acc, val.v)), after + 1)
            ELSE IF charAt(s, after) = "," THEN parseElements(s, after + 1, Append(acc, val.v))
            ELSE SyntaxError
        element(val) == next(val, skipWs(s, val.p))
    IN element(parseValue(s, i))

\* JSON.parse(s): ok is FALSE where JSON.parse throws
JSONparse(s) ==
    LET whole(r) == IF r.ok /\ skipWs(s, r.p) = Len(s) + 1 THEN r ELSE SyntaxError
    IN whole(parseValue(s, 1))

(***************************************************************************)
(* hdd-core.js: the codec                                                  *)
(***************************************************************************)
CURRENT_VERSION == <<"1", ".", "1">>
MAX_CONTEXT_DEPTH == 10
ENVELOPE_THRESHOLD == 1000

\* encodeValue giving up one level early, at depth MAX_CONTEXT_DEPTH itself
RECURSIVE encodeValueEarlyCap(_, _)
encodeValueEarlyCap(value, depth) ==
    IF depth >= MAX_CONTEXT_DEPTH THEN <<>>
    ELSE CASE value.t = "null" -> <<>>
           [] value.t \in {"num", "nan"} -> numberToString(value)
           [] value.t = "bool" -> IF value.b THEN <<"t", "r", "u", "e">> ELSE <<"f", "a", "l", "s", "e">>
           [] value.t = "str" -> escapeSeparator(value.s)
           [] value.t = "date" -> numberToString(Num(value.ms))
           [] value.t = "arr" ->
                stringify(Arr([i \in 1..Len(value.a) |->
                    IF typeof(value.a[i]) = "object"
                    THEN Str(encodeValueEarlyCap(value.a[i], depth + 1))
                    ELSE value.a[i]]))
           [] value.t = "obj" ->
                stringify(Obj([i \in 1..Len(value.p) |->
                    Prop(value.p[i].k,
                         IF typeof(value.p[i].v) = "object"
                         THEN Str(encodeValueEarlyCap(value.p[i].v, depth + 1))
                         ELSE value.p[i].v)]))

\* the greatest depth argument among the calls of encodeValue that the call
\* encodeValue(value, depth) makes, itself included (hdd-core.js 13-50)
RECURSIVE deepestCall(_, _)
deepestCall(value, depth) ==
    LET items == IF value.t = "arr" THEN value.a
                 ELSE [i \in 1..Len(value.p) |-> value.p[i].v]
    IN IF depth > MAX_CONTEXT_DEPTH \/ value.t \notin {"arr", "obj"} THEN depth
       ELSE Max({depth} \cup {deepestCall(items[i], depth + 1) :
                                 i \in {j \in 1..Len(items) : typeof(items[j]) = "object"}})

\* encodeValue(value, depth): the text of a value
RECURSIVE encodeValue(_, _)
encodeValue(value, depth) ==
    IF depth > MAX_CONTEXT_DEPTH THEN <<>>
    ELSE CASE value.t = "null" -> <<>>
           [] value.t \in {"num", "nan"} -> numberToString(value)
           [] value.t = "bool" -> IF value.b THEN <<"t", "r", "u", "e">> ELSE <<"f", "a", "l", "s", "e">>
           [] value.t = "str" -> escapeSeparator(value.s)
           [] value.t = "date" -> numberToString(Num(value.ms))
           [] value.t = "arr" ->
                stringify(Arr([i \in 1..Len(value.a) |->
                    IF typeof(value.a[i]) = "object"
                    THEN Str(encodeValue(value.a[i], depth + 1))
                    ELSE value.a[i]]))
           [] value.t = "obj" ->
                stringify(Obj([i \in 1..Len(value.p) |->
                    Prop(value.p[i].k,
                         IF typeof(value.p[i].v) = "object"
                         THEN Str(encodeValue(value.p[i].v, depth + 1))
                         ELSE value.p[i].v)]))

\* charCodeAt for the printable ASCII characters (code 96 is not used)
charCode(c) ==
    LET table == <<" ", "!", "\"", "#", "$", "%", "&", "'", "(", ")", "*", "+", ",", "-", ".", "/",
                   "0", "1", "2", "3", "4", "5", "6", "7", "8", "9", ":", ";", "<", "=", ">", "?",
                   "@", "A", "B", "C", "D", "E", "F", "G", "H", "I", "J", "K", "L", "M", "N", "O",
                   "P", "Q", "R", "S", "T", "U", "V", "W", "X", "Y", "Z", "[", "\\", "]", "^", "_",
                   "(backtick)", "a", "b", "c", "d", "e", "f", "g", "h", "i", "j", "k", "l", "m", "n", "o",
                   "p", "q", "r", "s", "t", "u", "v", "w", "x", "y", "z", "{", "|", "}", "~">>
    IN 31 + (CHOOSE i \in 1..Len(table) : table[i] = c)

\* one round of the hash loop on the 32-bit signed hash h:
\* hash = ((hash << 5) - hash) + char; hash = hash & hash, that is
\* 31 * h + char wrapped to 32 bits, computed on 16-bit halves
hashStep(h, c) ==
    LET lo == h % 65536
        hi == (h - lo) \div 65536
        lo2 == 31 * lo + c
        hi2 == 31 * hi + (lo2 \div 65536)
        hiw == ((hi2 + 32768) % 65536) - 32768
    IN hiw * 65536 + (lo2 % 65536)

\* the hash loop over data[lo..hi] started from h: the rounds of the first
\* half, then those of the second half (the test on left makes the evaluator
\* finish the first half before it starts the second)
RECURSIVE hashRange(_, _, _, _)
hashRange(h, data, lo, hi) ==
    IF lo > hi THEN h
    ELSE IF lo = hi THEN hashStep(h, charCode(data[lo]))
    ELSE LET mid == (lo + hi) \div 2
             left == hashRange(h, data, lo, mid)
         IN IF left \in Int THEN hashRange(left, data, mid + 1, hi) ELSE left

\* n.toString(36) for n >= 0
RECURSIVE toString36(_)
toString36(n) ==
    LET digits == <<"0", "1", "2", "3", "4", "5", "6", "7", "8", "9", "a", "b", "c", "d", "e",
                    "f", "g", "h", "i", "j", "k", "l", "m", "n", "o", "p", "q", "r", "s", "t",
                    "u", "v", "w", "x", "y", "z">>
    IN IF n < 36 THEN <<digits[n + 1]>> ELSE toString36(n \div 36) \o <<digits[(n % 36) + 1]>>

\* generateIntegrityHash(data): Math.abs(hash).toString(36)
generateIntegrityHash(data) ==
    LET abs(hash) ==
            IF hash = -2147483647 - 1 THEN <<"z", "i", "k", "0", "z", "k">>
            ELSE toString36(IF hash < 0 THEN -hash ELSE hash)
    IN abs(hashRange(0, data, 1, Len(data)))

\* the context field written by encode (hdd-core.js 78-93)
encodeContext(context, timestamp) ==
    LET envelope(encodedContext, data) ==
            IF Len(encodedContext) > ENVELOPE_THRESHOLD /\ data.ok
            THEN stringify(Obj(<<Prop(<<"d", "a", "t", "a">>, data.v),
                                 Prop(<<"_", "i", "n", "t", "e", "g", "r", "i", "t", "y">>,
                                      Str(generateIntegrityHash(encodedContext))),
                                 Prop(<<"_", "t", "s">>, Num(timestamp))>>))
            ELSE encodedContext
        sized(encodedContext) == envelope(encodedContext, JSONparse(encodedContext))
    IN IF context.t \notin {"obj", "arr", "date"} THEN <<>>
       ELSE sized(encodeValue(context, 1))

\* parts.filter(part => part !== null && part !== undefined && part !== '')
nonEmpty(part) == part # <<>>

\* encode(activity, value, context, version) at clock reading timestamp; the
\* empty text is the failure value.  version is a text, the caller's or the
\* default CURRENT_VERSION.
encode(activity, value, context, version, timestamp) ==
    LET checked(hddString) == IF Len(split(hddString)) < 3 THEN <<>> ELSE hddString
        joined(encodedValue) ==
            IF encodedValue = <<>> /\ value.t # "null" THEN <<>>
            ELSE checked(join(SelectSeq(<<escapeSeparator(activity.s),
                                          numberToString(Num(timestamp)),
                                          encodedValue,
                                          encodeContext(context, timestamp),
                                          version>>, nonEmpty)))
    IN IF activity.t # "str" \/ activity.s = <<>> THEN <<>>
       ELSE joined(encodeValue(value, 0))

\* the record returned by decode
Record(activity, timestamp, value, context, version) ==
    [t |-> "rec", activity |-> activity, timestamp |-> timestamp, value |-> value,
     context |-> context, version |-> version]

\* the value coercion of decode (hdd-core.js 126-138)
decodeValue(text) ==
    LET parsedOr(parsed, value) == IF parsed.ok THEN parsed.v ELSE Str(value)
        numberOr(number, value) ==
            IF number.t # "nan" /\ trim(value) # <<>> THEN number ELSE Str(value)
        coerced(value) ==
            IF (startsWith(value, "{") /\ endsWith(value, "}"))
               \/ (startsWith(value, "[") /\ endsWith(value, "]"))
            THEN parsedOr(JSONparse(value), value)
            ELSE numberOr(Number(value), value)
    IN coerced(unescapeSeparator(text))

\* the context read by decode from the fourth field (hdd-core.js 140-149)
decodeContext(text) ==
    LET parsedOr(parsed) == IF parsed.ok THEN parsed.v ELSE Str(text)
    IN IF text = <<>> THEN Null ELSE parsedOr(JSONparse(text))

\* decode that fails on a timestamp that is not a number
decodeStrictTimestamp(hddString) ==
    LET part(parts, i) == IF i <= Len(parts) THEN parts[i] ELSE <<>>
        versionOr(v) == IF v = <<>> THEN CURRENT_VERSION ELSE v
        record(parts, timestamp) ==
            IF Len(parts) < 3 \/ timestamp = NaN THEN Null
            ELSE Record(unescapeSeparator(parts[1]),
                        timestamp,
                        decodeValue(parts[3]),
                        decodeContext(part(parts, 4)),
                        versionOr(part(parts, 5)))
        fields(parts) == record(parts, parseInt(part(parts, 2)))
    IN IF hddString.t # "str" \/ Len(hddString.s) < 5 THEN Null
       ELSE fields(split(hddString.s))

\* decode that fails on an empty field among the first three
decodeRejectEmpty(hddString) ==
    LET part(parts, i) == IF i <= Len(parts) THEN parts[i] ELSE <<>>
        versionOr(v) == IF v = <<>> THEN CURRENT_VERSION ELSE v
        record(parts) ==
            IF Len(parts) < 3 \/ \E i \in 1..3 : part(parts, i) = <<>> THEN Null
            ELSE Record(unescapeSeparator(parts[1]),
                        parseInt(parts[2]),
                        decodeValue(parts[3]),
                        decodeContext(part(parts, 4)),
                        versionOr(part(parts, 5)))
    IN IF hddString.t # "str" \/ Len(hddString.s) < 5 THEN Null
       ELSE record(split(hddString.s))

\* decode(hddString); Null is the failure value
decode(hddString) ==
    LET part(parts, i) == IF i <= Len(parts) THEN parts[i] ELSE <<>>
        versionOr(v) == IF v = <<>> THEN CURRENT_VERSION ELSE v
        record(parts) ==
            IF Len(parts) < 3 THEN Null
            ELSE Record(unescapeSeparator(parts[1]),
                        parseInt(parts[2]),
                        decodeValue(parts[3]),
                        decodeContext(part(parts, 4)),
                        versionOr(part(parts, 5)))
    IN IF hddString.t # "str" \/ Len(hddString.s) < 5 THEN Null
       ELSE record(split(hddString.s))

(***************************************************************************)
(* hdd-api.js: HDDIntelligence                                             *)
(***************************************************************************)
\* arithmetic on numbers (NaN is contagious, as in JavaScript)
decScale(x, e) == x.m * Pow10(e - x.e)
decAdd(x, y) ==
    IF x.t = "nan" \/ y.t = "nan" THEN NaN
    ELSE LET e == Max({x.e, y.e}) IN Dec(decScale(x, e) + decScale(y, e), e)
decLess(x, y) ==
    LET e == Max({x.e, y.e}) IN decScale(x, e) < decScale(y, e)
MathMin(x, y) ==
    IF x.t = "nan" \/ y.t = "nan" THEN NaN ELSE IF decLess(y, x) THEN y ELSE x
MathAbs(x) == IF x.t = "nan" THEN NaN ELSE Dec(IF x.m < 0 THEN -x.m ELSE x.m, x.e)

MAX_NUMBER_IMPACT == 1000
MAX_TEXT_IMPACT == 100
LIST_LIMIT == 100
MAP_LIMIT == 50

\* items.reduce((sum, item) => sum + f[item], 0) over items lo..hi of the
\* function f, the sum being exact
RECURSIVE sumRange(_, _, _)
sumRange(f, lo, hi) ==
    IF lo > hi THEN Num(0)
    ELSE IF lo = hi THEN f[lo]
    ELSE LET mid == (lo + hi) \div 2
         IN decAdd(sumRange(f, lo, mid), sumRange(f, mid + 1, hi))

\* calculateImpact without the slice(0, 100) and slice(0, 50) limits
RECURSIVE calculateImpactUnlimited(_)
calculateImpactUnlimited(v) ==
    CASE v.t \in {"num", "nan"} -> MathMin(MathAbs(v), Num(MAX_NUMBER_IMPACT))
      [] v.t = "str" -> MathMin(Dec(Len(v.s), 1), Num(MAX_TEXT_IMPACT))
      [] v.t = "bool" -> IF v.b THEN Num(1) ELSE Num(0)
      [] v.t = "arr" ->
            sumRange([i \in 1..Len(v.a) |-> calculateImpactUnlimited(v.a[i])], 1, Len(v.a))
      [] v.t = "date" -> Num(1)
      [] v.t = "null" -> Num(1)
      [] v.t = "obj" ->
            sumRange([i \in 1..Len(v.p) |-> calculateImpactUnlimited(v.p[i].v)], 1, Len(v.p))

\* calculateImpact(value).  Object.values(null) throws and the catch clause
\* returns 1.
RECURSIVE calculateImpact(_)
calculateImpact(v) ==
    CASE v.t \in {"num", "nan"} -> MathMin(MathAbs(v), Num(MAX_NUMBER_IMPACT))
      [] v.t = "str" -> MathMin(Dec(Len(v.s), 1), Num(MAX_TEXT_IMPACT))
      [] v.t = "bool" -> IF v.b THEN Num(1) ELSE Num(0)
      [] v.t = "arr" ->
            LET n == Min({Len(v.a), LIST_LIMIT})
            IN sumRange([i \in 1..n |-> calculateImpact(v.a[i])], 1, n)
      [] v.t = "date" -> Num(1)
      [] v.t = "null" -> Num(1)
      [] v.t = "obj" ->
            LET n == Min({Len(v.p), MAP_LIMIT})
            IN sumRange([i \in 1..n |-> calculateImpact(v.p[i].v)], 1, n)

\* measureContextComplexity works on object identities.  A context is a graph:
\* nodes[n] lists, in key order, the values of the keys of object n, each
\* either the node it refers to (a non-array, non-Date object) or 0 (any other
\* value); root is 1, or 0 when the context is not an object at all.
\* The score is counted in half points.
maxDepth == 8
MAX_ITERATIONS == 1000
MAX_COMPLEXITY == 100
DEPTH_PENALTY == 10
CYCLE_PENALTY == 5
MAX_KEY_SCORE == 20

Frame(obj, depth) == [obj |-> obj, depth |-> depth]

\* the frames pushed for the keys of node obj popped at depth
pushedFrames(nodes, obj, depth) ==
    LET kids == SelectSeq(nodes[obj], LAMBDA e : e # 0)
    IN [i \in 1..Len(kids) |-> Frame(kids[i], depth + 1)]

\* finalScore without the clamp
finalScoreUnclamped(complexity) == complexity

\* Math.min(complexity, 100), in half points
finalScore(complexity) == Min({complexity, 2 * MAX_COMPLEXITY})

\* 1 + Math.min(keys.length * 0.5, 20), in half points
nodeScore(nodes, obj) == 2 + Min({Len(nodes[obj]), 2 * MAX_KEY_SCORE})

(***************************************************************************)
(* hdd-api.js: the predictor                                               *)
(***************************************************************************)
DEFAULT_LOOKBACK == 10
MIN_LOOKBACK == 3
MAX_LOOKBACK == 50
MIN_EVENTS == 3
MIN_VALID_EVENTS == 2
MAX_ALTERNATIVES == 3

\* Math.round(c / t * 100) for t > 0: a ratio rounded to 2 decimals, in
\* hundredths
roundedRatio(c, t) == (200 * c + t) \div (2 * t)

\* row[k] || 0 on a property list of counts
countOf(row, k) ==
    IF hasKey(row, k) THEN (CHOOSE x \in {row[i] : i \in 1..Len(row)} : x.k = k).v ELSE 0

\* the records decoded from events[first..], keeping those with an activity
\* (hdd-api.js 111-117)
decodedWindow(events, first) ==
    SelectSeq([i \in 1..(Len(events) - first + 1) |-> decode(events[first + i - 1])],
              LAMBDA decoded : decoded # Null /\ decoded.activity # <<>>)

\* the distinct keys of a new object, in the order Object.entries gives
\* them, after the keys of the sequence `assigned` were assigned one by one:
\* array indices first, in ascending order, then the other keys as they came
orderedKeys(assigned) ==
    LET firsts == {i \in 1..Len(assigned) : \A j \in 1..(i - 1) : assigned[j] # assigned[i]}
        before(j, i) ==
            IF isArrayIndex(assigned[j]) THEN keyBefore(assigned[j], assigned[i])
            ELSE ~isArrayIndex(assigned[i]) /\ j < i
        ranked(keep) ==
            [r \in 1..Cardinality(keep) |->
                assigned[CHOOSE i \in keep :
                            Cardinality({j \in keep \ {i} : before(j, i)}) + 1 = r]]
    IN ranked(firsts)

\* transitionMatrix[from] after the first n pairs of activities, as the
\* list of its properties: a successor of `from` for a key, the number of
\* times it follows `from` for a value; the empty list stands for undefined
transitionsFrom(activities, from, n) ==
    LET counted(keys) ==
            [r \in 1..Len(keys) |->
                Prop(keys[r],
                     Cardinality({i \in 1..n : activities[i] = from
                                               /\ activities[i + 1] = keys[r]}))]
        successors(at) == [k \in 1..Len(at) |-> activities[at[k] + 1]]
    IN counted(orderedKeys(successors(
           SelectSeq([i \in 1..n |-> i], LAMBDA i : activities[i] = from))))

\* _findDominantActivity(activities): counts[activity] after the n-th round of
\* the loop is the number of occurrences among the first n activities;
\* dominant is last assigned in the first round that reaches the highest
\* count
_findDominantActivity(activities) ==
    LET count(n) == Cardinality({j \in 1..n : activities[j] = activities[n]})
        firstAt(maxCount) ==
            activities[Min({n \in 1..Len(activities) : count(n) = maxCount})]
    IN firstAt(Max({count(n) : n \in 1..Len(activities)}))

\* _determinePatternType(activities, probability) for probability = c / t
_determinePatternType(activities, c, t) ==
    LET unique == Cardinality({activities[i] : i \in 1..Len(activities)})
    IN IF 10 * c > 8 * t THEN "strong_sequence"
       ELSE IF 10 * c > 6 * t THEN "moderate_sequence"
       ELSE IF 10 * c > 4 * t THEN "weak_sequence"
       ELSE IF 10 * unique > 7 * Len(activities) THEN "high_diversity"
       ELSE IF 10 * unique < 3 * Len(activities) THEN "repetitive"
       ELSE "random"

\* the sum of the counts of a row
RECURSIVE totalCount(_)
totalCount(row) == IF row = <<>> THEN 0 ELSE row[1].v + totalCount(Tail(row))

\* alternativesOf without the sort: the first 3 entries as enumerated
alternativesUnsorted(row, total) ==
    [r \in 1..Min({Len(row), MAX_ALTERNATIVES}) |->
        [activity |-> row[r].k, probability |-> roundedRatio(row[r].v, total)]]

\* the entries of a row with their rounded probabilities, sorted by
\* b.probability - a.probability (the sort is stable), the first 3
alternativesOf(row, total) ==
    LET probability(i) == roundedRatio(row[i].v, total)
        rank(i) == Cardinality({j \in 1..Len(row) :
                       \/ probability(j) > probability(i)
                       \/ probability(j) = probability(i) /\ j < i}) + 1
        at(r) == CHOOSE i \in 1..Len(row) : rank(i) = r
    IN [r \in 1..Min({Len(row), MAX_ALTERNATIVES}) |->
           [activity |-> row[at(r)].k, probability |-> probability(at(r))]]

\* what detectActivityPattern returns; confidence and the probabilities are
\* in hundredths, the fields a return statement leaves out are null
Prediction(next, confidence, pattern, dominant, count, alternatives, valid) ==
    [next |-> next, confidence |-> confidence, pattern |-> pattern,
     dominant_activity |-> dominant, activity_count |-> count,
     alternatives |-> alternatives, valid_events |-> valid]

\* the part of detectActivityPattern after the transition matrix is built
\* (hdd-api.js 132-168)
predictFrom(activities, possibleNext) ==
    LET likely(total, maxCount) ==
            Prediction(Str(possibleNext[Min({i \in 1..Len(possibleNext) :
                                                possibleNext[i].v = maxCount})].k),
                       roundedRatio(maxCount, total),
                       _determinePatternType(activities, maxCount, total),
                       Str(_findDominantActivity(activities)),
                       Num(Len(activities)),
                       alternativesOf(possibleNext, total),
                       Null)
    IN IF possibleNext = <<>>
       THEN Prediction(Null, 0, "no_transitions", Str(_findDominantActivity(activities)),
                       Num(Len(activities)), Null, Null)
       ELSE likely(totalCount(possibleNext),
                   Max({possibleNext[i].v : i \in 1..Len(possibleNext)}))

\* detectActivityPattern over the whole array, whatever the lookback
detectActivityPatternUnwindowed(events, lookback) ==
    LET analysed(activities) ==
            predictFrom(activities,
                        transitionsFrom(activities, activities[Len(activities)],
                                        Len(activities) - 1))
        windowed(valid) ==
            IF Len(valid) < MIN_VALID_EVENTS
            THEN Prediction(Null, 0, "no_valid_activities", Null, Null, Null, Num(Len(valid)))
            ELSE analysed([i \in 1..Len(valid) |-> valid[i].activity])
    IN IF events.t # "arr" \/ Len(events.a) < MIN_EVENTS
       THEN Prediction(Null, 0, "insufficient_data", Null, Null, Null,
                       Num(IF events.t = "arr" THEN Len(events.a) ELSE 0))
       ELSE windowed(decodedWindow(events.a, 1))

\* detectActivityPattern(events, lookback) (hdd-api.js 106-169); events is an
\* array of texts or, for anything that is not an array, null
detectActivityPattern(events, lookback) ==
    LET analysed(activities) ==
            predictFrom(activities,
                        transitionsFrom(activities, activities[Len(activities)],
                                        Len(activities) - 1))
        windowed(valid) ==
            IF Len(valid) < MIN_VALID_EVENTS
            THEN Prediction(Null, 0, "no_valid_activities", Null, Null, Null, Num(Len(valid)))
            ELSE analysed([i \in 1..Len(valid) |-> valid[i].activity])
    IN IF events.t # "arr" \/ Len(events.a) < MIN_EVENTS
       THEN Prediction(Null, 0, "insufficient_data", Null, Null, Null,
                       Num(IF events.t = "arr" THEN Len(events.a) ELSE 0))
       ELSE windowed(decodedWindow(events.a, Max({0, Len(events.a) - lookback}) + 1))

\* predictNext(events, {lookback}) (hdd-api.js 444-448); lookback is null
\* when the caller gives none
predictNext(events, lookback) ==
    detectActivityPattern(events,
        IF lookback # Null /\ lookback.m # 0
           /\ lookback.m >= MIN_LOOKBACK /\ lookback.m <= MAX_LOOKBACK
        THEN lookback.m ELSE DEFAULT_LOOKBACK)

(***************************************************************************)
(* hdd-api.js: the temporal analysis                                       *)
(***************************************************************************)
MIN_TIMESTAMPS == 2
MS_PER_MINUTE == 60000

\* Math.round(a / b) for b > 0 (halves go up)
roundDiv(a, b) == (2 * a + b) \div (2 * b)

RECURSIVE gcd(_, _)
gcd(a, b) == IF b = 0 THEN a ELSE gcd(b, a % b)

RECURSIVE sumOf(_)
sumOf(xs) == IF xs = <<>> THEN 0 ELSE xs[1] + sumOf(Tail(xs))

\* the greatest common divisor of the absolute values of xs (0 when all
\* are 0)
RECURSIVE gcdOf(_)
gcdOf(xs) ==
    IF xs = <<>> THEN 0
    ELSE gcd(IF xs[1] < 0 THEN -xs[1] ELSE xs[1], gcdOf(Tail(xs)))

\* Math.round(Math.max(0, 1 - Math.std(intervals) / avgInterval) * 100) for
\* a positive average, computed exactly: with S the sum of the intervals
\* and V = n * (sum of squares) - S^2, Math.std / avg is sqrt(V) / S; the
\* result is 0 when V >= S^2 and otherwise the largest k with
\* 200 * sqrt(V) <= (201 - 2k) * S.  The ratio does not change when the
\* intervals are divided by their greatest common divisor.
consistencyOf(intervals) ==
    LET rounded(S, V) ==
            IF V >= S * S THEN 0
            ELSE Max({0} \cup {k \in 1..100 :
                        40000 * V <= ((201 - 2 * k) * S) * ((201 - 2 * k) * S)})
        scaled(ys) ==
            rounded(sumOf(ys),
                    Len(ys) * sumOf([i \in 1..Len(ys) |-> ys[i] * ys[i]])
                        - sumOf(ys) * sumOf(ys))
        by(unit) == scaled([i \in 1..Len(intervals) |-> intervals[i] \div unit])
    IN by(gcdOf(intervals))

\* the trend with <= in the place of <
trendOfNonStrict(intervals) ==
    IF Len(intervals) > 1
    THEN (IF intervals[Len(intervals)] * Len(intervals) <= sumOf(intervals)
          THEN "accelerating" ELSE "decelerating")
    ELSE "stable"

\* the trend field (hdd-api.js 223-224): intervals[last] < avgInterval
trendOf(intervals) ==
    IF Len(intervals) > 1
    THEN (IF intervals[Len(intervals)] * Len(intervals) < sumOf(intervals)
          THEN "accelerating" ELSE "decelerating")
    ELSE "stable"

\* the timestamps kept by the loop (hdd-api.js 200-206): those of the events
\* that decode, when truthy (neither NaN nor 0)
keptTimestamps(events) ==
    LET decodedAll == [i \in 1..Len(events) |-> decode(events[i])]
        kept == SelectSeq(decodedAll, LAMBDA decoded :
                    decoded # Null /\ decoded.timestamp # NaN /\ decoded.timestamp.m # 0)
    IN [i \in 1..Len(kept) |-> kept[i].timestamp.m]

\* what analyzeTemporalPattern returns for the timestamps kept (hdd-api.js
\* 208-228); consistency is in hundredths, event_density a decimal
temporalStats(timestamps) ==
    LET stats(intervals, total, duration) ==
            [average_interval_ms |-> roundDiv(total, Len(intervals)),
             frequency_per_minute |->
                 IF total > 0 THEN roundDiv(MS_PER_MINUTE * Len(intervals), total) ELSE 0,
             consistency |-> IF total > 0 THEN consistencyOf(intervals) ELSE 0,
             trend |-> trendOf(intervals),
             total_duration_ms |-> duration,
             event_density |->
                 IF duration > 0
                 THEN Dec(roundDiv(MS_PER_MINUTE * Len(timestamps), duration), 3)
                 ELSE Num(0)]
        from(intervals) ==
            stats(intervals, sumOf(intervals), timestamps[Len(timestamps)] - timestamps[1])
    IN IF Len(timestamps) < MIN_TIMESTAMPS THEN Null
       ELSE from([i \in 1..(Len(timestamps) - 1) |-> timestamps[i + 1] - timestamps[i]])

\* analyzeTemporalPattern(events) (hdd-api.js 197-229)
analyzeTemporalPattern(events) ==
    IF events.t # "arr" \/ Len(events.a) < MIN_TIMESTAMPS THEN Null
    ELSE temporalStats(keptTimestamps(events.a))

(***************************************************************************)
(* hdd-api.js: context injection and sanitization                          *)
(***************************************************************************)
K_metadata == <<"_", "m", "e", "t", "a", "d", "a", "t", "a">>
K_injected == <<"i", "n", "j", "e", "c", "t", "e", "d">>
K_source == <<"s", "o", "u", "r", "c", "e">>
K_version == <<"v", "e", "r", "s", "i", "o", "n">>
K_operation == <<"o", "p", "e", "r", "a", "t", "i", "o", "n">>
K_user == <<"u", "s", "e", "r">>
K_email == <<"e", "m", "a", "i", "l">>
K_id == <<"i", "d">>
DEFAULT_SOURCE == <<"h", "d", "d", "_", "a", "p", "i">>
OPERATION == <<"c", "o", "n", "t", "e", "x", "t", "_", "i", "n", "j", "e", "c", "t", "i", "o", "n">>
REDACTED == <<"[", "R", "E", "D", "A", "C", "T", "E", "D", "]">>

\* the keys sanitizeContext redacts when the caller names none
DEFAULT_SENSITIVE_KEYS ==
    {<<"u", "s", "e", "r", "_", "i", "d">>,
     K_email,
     <<"p", "a", "s", "s", "w", "o", "r", "d">>,
     <<"t", "o", "k", "e", "n">>,
     <<"s", "s", "n">>,
     <<"c", "r", "e", "d", "i", "t", "_", "c", "a", "r", "d">>,
     <<"p", "h", "o", "n", "e">>,
     <<"a", "p", "i", "k", "e", "y">>}

\* what a throw statement leaves the caller with
Thrown == [t |-> "error"]

\* the truth value of v in a condition
truthy(v) ==
    CASE v.t = "null" -> FALSE
      [] v.t = "nan" -> FALSE
      [] v.t = "num" -> v.m # 0
      [] v.t = "str" -> v.s # <<>>
      [] v.t = "bool" -> v.b
      [] OTHER -> TRUE

\* the own enumerable properties of v, in order
ownProperties(v) ==
    CASE v.t = "obj" -> v.p
      [] v.t = "arr" -> [i \in 1..Len(v.a) |-> Prop(natToString(i - 1), v.a[i])]
      [] v.t = "str" -> [i \in 1..Len(v.s) |-> Prop(natToString(i - 1), Str(<<v.s[i]>>))]
      [] OTHER -> <<>>

\* the property list p after every property of props is assigned to it
RECURSIVE assignAll(_, _)
assignAll(p, props) ==
    IF props = <<>> THEN p
    ELSE assignAll(objPut(p, props[1].k, props[1].v), Tail(props))

\* {...p, ...source}
spread(p, source) == assignAll(p, ownProperties(source))

\* the _metadata block of injectContext, injected at clock reading `injected`
metadataBlock(source, injected) ==
    Obj(<<Prop(K_injected, Num(injected)),
          Prop(K_source, IF truthy(source) THEN source ELSE Str(DEFAULT_SOURCE)),
          Prop(K_version, Str(CURRENT_VERSION)),
          Prop(K_operation, Str(OPERATION))>>)

\* the enriched context with the spreads in the other order: the additional
\* context first, the existing one over it
enrichedContextExistingWins(existing, additionalContext, source, injected) ==
    Obj(objPut(spread(spread(<<>>, additionalContext), existing),
               K_metadata, metadataBlock(source, injected)))

\* enrichedContext (hdd-api.js 363-372)
enrichedContext(existing, additionalContext, source, injected) ==
    Obj(objPut(spread(spread(<<>>, existing), additionalContext),
               K_metadata, metadataBlock(source, injected)))

\* injectContext(hddEvent, additionalContext, {source}) with the clock read
\* as `injected` and then, by encode, as `timestamp`: the context handed to
\* encode and the text returned, or Thrown
injectContext(hddEvent, additionalContext, source, injected, timestamp) ==
    LET encoded(decoded, context) ==
            [passed |-> context,
             output |-> Str(encode(Str(decoded.activity), decoded.value, context,
                                   decoded.version, timestamp))]
        enriched(decoded) ==
            IF decoded = Null THEN [passed |-> Null, output |-> Thrown]
            ELSE encoded(decoded,
                         enrichedContext(decoded.context, additionalContext, source, injected))
    IN IF hddEvent.t # "str" THEN [passed |-> Null, output |-> Thrown]
       ELSE enriched(decode(hddEvent))

\* sanitizeObject(obj) (hdd-api.js 470-478) on the property list p
RECURSIVE sanitizeObject(_, _)
sanitizeObject(p, sensitiveKeys) ==
    [i \in 1..Len(p) |->
        Prop(p[i].k,
             IF p[i].k \in sensitiveKeys THEN Str(REDACTED)
             ELSE IF p[i].v.t = "obj" THEN Obj(sanitizeObject(p[i].v.p, sensitiveKeys))
             ELSE p[i].v)]

\* sanitizeContext(hddEvent, {keysToSanitize}) with the clock read by encode
\* as `timestamp`: the context handed to encode and the text returned, or
\* Thrown.  keysToSanitize is a list of texts, or null when absent.
sanitizeContext(hddEvent, keysToSanitize, timestamp) ==
    LET sensitiveKeys ==
            IF keysToSanitize = Null THEN DEFAULT_SENSITIVE_KEYS
            ELSE {keysToSanitize.a[i].s : i \in 1..Len(keysToSanitize.a)}
        encoded(decoded, context) ==
            [passed |-> context,
             output |-> Str(encode(Str(decoded.activity), decoded.value, context,
                                   decoded.version, timestamp))]
        sanitized(decoded) ==
            IF decoded = Null THEN [passed |-> Null, output |-> Thrown]
            ELSE encoded(decoded,
                         Obj(sanitizeObject(IF truthy(decoded.context)
                                            THEN spread(<<>>, decoded.context) ELSE <<>>,
                                            sensitiveKeys)))
    IN IF hddEvent.t # "str" THEN [passed |-> Null, output |-> Thrown]
       ELSE sanitized(decode(hddEvent))

(***************************************************************************)
(* hdd-api.js: the batch analysis                                          *)
(***************************************************************************)
DEFAULT_MAX_EVENTS == 10000
MS_PER_HOUR == 3600000
MAX_QUALITY_SCORE == 10

\* measureContextComplexity on a decoded context, in half points before the
\* final Math.min.  A decoded context is a tree, so no object is met twice,
\* and it has fewer than MAX_ITERATIONS objects: every map reached through
\* maps is scored once, at its depth.
RECURSIVE treeComplexity(_, _)
treeComplexity(v, depth) ==
    LET values == IF v.t = "obj" THEN [i \in 1..Len(v.p) |-> v.p[i].v] ELSE v.a
    IN IF depth > maxDepth THEN 2 * DEPTH_PENALTY
       ELSE 2 + Min({Len(values), 2 * MAX_KEY_SCORE})
            + sumOf([i \in 1..Len(values) |->
                        IF values[i].t = "obj" THEN treeComplexity(values[i], depth + 1)
                        ELSE 0])

\* measureContextComplexity(context) for a decoded context, in half points
measureContextComplexity(context) ==
    IF context.t \in {"obj", "arr"} THEN finalScore(treeComplexity(context, 0)) ELSE 0

\* _categorizeImpact(m / d) for d > 0
_categorizeImpact(m, d) ==
    IF m > 5 * d THEN "high"
    ELSE IF m > 2 * d THEN "medium"
    ELSE IF 2 * m > d THEN "low"
    ELSE "minimal"

\* _categorizeComplexity(complexity), complexity in half points
_categorizeComplexity(complexity) ==
    IF complexity > 100 THEN "very_high"
    ELSE IF complexity > 60 THEN "high"
    ELSE IF complexity > 30 THEN "medium"
    ELSE IF complexity > 10 THEN "low"
    ELSE "minimal"

\* activityFrequency after the first n valid events
RECURSIVE activityFrequency(_, _)
activityFrequency(activities, n) ==
    LET counted(row) == objPut(row, activities[n], countOf(row, activities[n]) + 1)
    IN IF n = 0 THEN <<>> ELSE counted(activityFrequency(activities, n - 1))

\* _findMostFrequent(activityFrequency): the first entry with the highest
\* count
_findMostFrequent(frequency) ==
    IF frequency = <<>> THEN <<>>
    ELSE frequency[Min({i \in 1..Len(frequency) :
                          \A j \in 1..Len(frequency) : frequency[j].v <= frequency[i].v})].k

\* the objects analyzePattern returns
ErrorReport(code, total) == [kind |-> "error", code |-> code, total_events |-> total]
NoTotal == Null
EmptyReport == [kind |-> "empty", event_count |-> 0, data_quality_score |-> 0]

\* the report for the events that decoded with an activity (hdd-api.js
\* 275-325); impact is their total impact and complexity their total
\* complexity in half points; the ratios and scores are in hundredths
fullReport(hddEvents, validEvents, prediction, temporal) ==
    LET n == Len(validEvents)
        timespan ==
            IF n > 1
            THEN (IF validEvents[n].timestamp = NaN \/ validEvents[1].timestamp = NaN
                  THEN NaN
                  ELSE Num(validEvents[n].timestamp.m - validEvents[1].timestamp.m))
            ELSE Num(0)
        report(impact, complexities, frequency) ==
            [kind |-> "report",
             total |-> n,
             valid_ratio |-> roundDiv(100 * n, Len(hddEvents)),
             unique_activities |-> Len(frequency),
             timespan_hours |->
                 IF timespan = NaN THEN NaN ELSE Dec(roundDiv(100 * timespan.m, MS_PER_HOUR), 2),
             total_impact |-> roundDiv(100 * impact.m, Pow10(impact.e)),
             average_impact |-> roundDiv(100 * impact.m, Pow10(impact.e) * n),
             impact_distribution |-> _categorizeImpact(impact.m, Pow10(impact.e) * n),
             average_complexity |-> roundDiv(100 * sumOf(complexities), 2 * n),
             max_complexity |-> Max({0} \cup {complexities[i] : i \in 1..n}),
             complexity_level |->
                 _categorizeComplexity(Max({0} \cup {complexities[i] : i \in 1..n})),
             prediction |-> prediction,
             temporal_pattern |-> temporal,
             activity_distribution |-> frequency,
             most_frequent_activity |-> _findMostFrequent(frequency),
             data_quality_score |->
                 Min({roundDiv(5 * (20 * impact.m + sumOf(complexities) * Pow10(impact.e)),
                               Pow10(impact.e) * n),
                      100 * MAX_QUALITY_SCORE}),
             consistency_score |-> IF temporal = Null THEN 0 ELSE temporal.consistency,
             pattern_strength |-> prediction.confidence]
    IN report(sumRange([i \in 1..n |-> calculateImpact(validEvents[i].value)], 1, n),
              [i \in 1..n |-> measureContextComplexity(validEvents[i].context)],
              activityFrequency([i \in 1..n |-> validEvents[i].activity], n))

\* the number of events detectActivityPattern and analyzeTemporalPattern
\* hand to decode for an array of n events
decodesOfAnalyses(n) ==
    (IF n < MIN_TIMESTAMPS THEN 0 ELSE n)
    + (IF n < MIN_EVENTS THEN 0 ELSE Min({n, DEFAULT_LOOKBACK}))

\* analyzePattern giving up on the whole array when one event fails to
\* decode with an activity
analyzePatternAllOrNothing(hddEvents, maxEvents) ==
    LET limit == IF maxEvents # Null /\ truthy(maxEvents) THEN maxEvents.m
                 ELSE DEFAULT_MAX_EVENTS
        analysed(validEvents) ==
            IF Len(validEvents) < Len(hddEvents.a)
            THEN [report |-> ErrorReport("NO_VALID_EVENTS", Num(Len(hddEvents.a))),
                  decoded |-> Len(hddEvents.a)]
            ELSE [report |-> fullReport(hddEvents.a, validEvents,
                                        detectActivityPattern(hddEvents, DEFAULT_LOOKBACK),
                                        analyzeTemporalPattern(hddEvents)),
                  decoded |-> Len(hddEvents.a) + decodesOfAnalyses(Len(hddEvents.a))]
    IN IF hddEvents.t # "arr"
       THEN [report |-> ErrorReport("INVALID_INPUT", NoTotal), decoded |-> 0]
       ELSE IF Len(hddEvents.a) > limit
       THEN [report |-> ErrorReport("EXCEEDED_LIMIT", NoTotal), decoded |-> 0]
       ELSE IF hddEvents.a = <<>>
       THEN [report |-> EmptyReport, decoded |-> 0]
       ELSE analysed(decodedWindow(hddEvents.a, 1))

\* analyzePattern(hddEvents, {maxEvents}) (hdd-api.js 241-326): the object
\* returned and the number of calls of decode made on the way.  maxEvents is
\* null when the caller gives none.
analyzePattern(hddEvents, maxEvents) ==
    LET limit == IF maxEvents # Null /\ truthy(maxEvents) THEN maxEvents.m
                 ELSE DEFAULT_MAX_EVENTS
        analysed(validEvents) ==
            IF validEvents = <<>>
            THEN [report |-> ErrorReport("NO_VALID_EVENTS", Num(Len(hddEvents.a))),
                  decoded |-> Len(hddEvents.a)]
            ELSE [report |-> fullReport(hddEvents.a, validEvents,
                                        detectActivityPattern(hddEvents, DEFAULT_LOOKBACK),
                                        analyzeTemporalPattern(hddEvents)),
                  decoded |-> Len(hddEvents.a) + decodesOfAnalyses(Len(hddEvents.a))]
    IN IF hddEvents.t # "arr"
       THEN [report |-> ErrorReport("INVALID_INPUT", NoTotal), decoded |-> 0]
       ELSE IF Len(hddEvents.a) > limit
       THEN [report |-> ErrorReport("EXCEEDED_LIMIT", NoTotal), decoded |-> 0]
       ELSE IF hddEvents.a = <<>>
       THEN [report |-> EmptyReport, decoded |-> 0]
       ELSE analysed(decodedWindow(hddEvents.a, 1))

(***************************************************************************)
(* Inputs                                                                  *)
(***************************************************************************)
MaxActivityLen == 2
MaxTextLen == 3
MaxWireLen == 6
MaxClock == 2
ChainDepth == 12
Excess == 1

\* all strings over alphabet of length lo..hi
Texts(alphabet, lo, hi) == UNION {[1..n -> alphabet] : n \in lo..hi}

ActivityAlphabet == {"a", ":"}
TextAlphabet == {"a", ":", "\\", "1"}
WireAlphabet == {"a", ":", "1", "{"}

T_a == <<"a">>
T_k == <<"k">>
T_sep == <<"x", ":", ":", "y">>
LongText == [i \in 1..ENVELOPE_THRESHOLD |-> "x"]

\* activities: every short text, the empty text and a non-text
ActivityInputs ==
    {Str(s) : s \in Texts(ActivityAlphabet, 0, MaxActivityLen)} \cup {Num(7)}

\* scalar values: numbers, booleans and every short text
ScalarInputs ==
    {Num(0), Num(1), Num(-12), Dec(15, 1), Bool(TRUE), Bool(FALSE)}
    \cup {Str(s) : s \in Texts(TextAlphabet, 0, MaxTextLen)}
    \cup {Str(<<"{", "}">>), Str(<<"{", "a", "}">>), Str(<<"[", "1", "]">>), Str(<<" ", "1">>),
          Str(<<"t", "r", "u", "e">>)}

\* structured values
StructuredInputs ==
    {Null,
     Date(5),
     Arr(<<Num(1), Str(T_a)>>),
     Arr(<<Str(T_sep)>>),
     Obj(<<Prop(T_k, Num(1))>>),
     Obj(<<Prop(T_k, Str(T_sep))>>),
     Obj(<<Prop(T_k, Obj(<<Prop(T_a, Bool(TRUE))>>))>>)}

\* contexts: absent, flat, nested, with a separator in a leaf
ContextInputs ==
    {Null,
     Obj(<<>>),
     Obj(<<Prop(T_k, Str(T_a))>>),
     Obj(<<Prop(T_k, Num(1)), Prop(T_a, Bool(FALSE))>>),
     Obj(<<Prop(T_k, Str(T_sep))>>),
     Obj(<<Prop(T_k, Obj(<<Prop(T_a, Num(1))>>))>>),
     Arr(<<Num(1)>>)}

\* flat contexts whose serialized form {"k":"xx...x"} is just below, at and
\* just above the envelope threshold
LongContextInputs ==
    {Obj(<<Prop(T_k, Str(SubSeq(LongText, 1, n)))>>) :
        n \in {ENVELOPE_THRESHOLD - 9, ENVELOPE_THRESHOLD - 8, ENVELOPE_THRESHOLD - 7}}

\* Objects that refer to each other: heap[n] is object n, and Ref(n) among
\* its values is a reference to object n.  encodeValue follows references
\* without looking at identities, so what it reads of an object is the tree
\* of its unfolding; unfold gives that tree down to `levels` levels below
\* the root, with an empty map for what lies further down.
Ref(n) == [t |-> "ref", n |-> n]

RECURSIVE unfold(_, _, _)
unfold(heap, v, levels) ==
    CASE v.t = "ref" -> IF levels < 0 THEN Obj(<<>>) ELSE unfold(heap, heap[v.n], levels)
      [] v.t = "arr" -> Arr([i \in 1..Len(v.a) |-> unfold(heap, v.a[i], levels - 1)])
      [] v.t = "obj" ->
            Obj([i \in 1..Len(v.p) |-> Prop(v.p[i].k, unfold(heap, v.p[i].v, levels - 1))])
      [] OTHER -> v

\* a list that holds itself, two maps that hold each other, and a chain of n
\* lists with a number in the last
SelfList == <<Arr(<<Ref(1)>>)>>
MutualMaps == <<Obj(<<Prop(T_k, Ref(2))>>), Obj(<<Prop(T_a, Ref(1)), Prop(T_k, Num(1))>>)>>
ListChain(n) == [i \in 1..n |-> Arr(<<IF i < n THEN Ref(i + 1) ELSE Num(1)>>)]

\* values and contexts nested to the depth limit of encodeValue, beyond it,
\* and cyclic
UnfoldLevels == MAX_CONTEXT_DEPTH + 1 + Excess
DeepValue(n) == unfold(ListChain(n), Ref(1), n)
CyclicList == unfold(SelfList, Ref(1), UnfoldLevels)
CyclicMap == unfold(MutualMaps, Ref(1), UnfoldLevels)

\* encode with a value that reaches the depth limit and one that exceeds it,
\* with a context that reaches it and one that exceeds it, and with cyclic
\* ones
DeepEncodeInputs ==
    {<<Str(T_a), DeepValue(MAX_CONTEXT_DEPTH + 1), Null, CURRENT_VERSION>>,
     <<Str(T_a), DeepValue(ChainDepth), Null, CURRENT_VERSION>>,
     <<Str(T_a), CyclicMap, Null, CURRENT_VERSION>>,
     <<Str(T_a), Num(1), DeepValue(MAX_CONTEXT_DEPTH), CURRENT_VERSION>>,
     <<Str(T_a), Null, DeepValue(ChainDepth + Excess), CURRENT_VERSION>>,
     <<Str(T_a), Num(1), CyclicList, CURRENT_VERSION>>}

\* version texts: the default, another one, the empty text and one holding
\* the separator
VersionInputs == {CURRENT_VERSION, <<"2">>, <<>>, <<"2", ":", ":", "0">>}

\* the argument tuples of encode: every activity with every scalar value (no
\* context, default version); a fixed activity with every combination of a
\* sample value, a context and a version; the long contexts; and the deep
\* and cyclic values and contexts
EncodeInputs ==
    (ActivityInputs \X ScalarInputs \X {Null} \X {CURRENT_VERSION})
    \cup ({Str(T_a)} \X ({Num(1), Str(T_a), Bool(TRUE)} \cup StructuredInputs)
          \X ContextInputs \X VersionInputs)
    \cup ({Str(T_a)} \X {Num(1)} \X LongContextInputs \X {CURRENT_VERSION})
    \cup DeepEncodeInputs

\* texts made of fields that are well formed, malformed or empty
FieldedWireInputs ==
    {join(<<f[1], f[2], f[3]>> \o f[4]) : f \in
        {T_a, <<>>}
        \X {<<"1">>, <<"1", "a">>, T_a, <<>>}
        \X {<<"1">>, T_a, <<"{", "a", "}">>, <<"{", "}">>, <<"[", "1">>, <<>>}
        \X {<<>>, <<(<<"{", "a">>)>>, <<(<<"{", "}">>)>>, <<(<<"{", "a">>), (<<"2">>)>>,
            <<(<<>>), (<<"2">>)>>}}

\* the arguments of decode: every short text, the fielded texts and non-texts
WireInputs ==
    {Str(s) : s \in Texts(WireAlphabet, 0, MaxWireLen) \cup FieldedWireInputs}
    \cup {Num(7), Null}

MaxNodes == 2
MaxEntries == 1
MaxItems == 2
MaxRing == 10

\* every graph of MaxNodes objects with at most MaxEntries keys each
SmallGraphs ==
    {[root |-> 1, nodes |-> g] :
        g \in [1..MaxNodes -> UNION {[1..n -> 0..MaxNodes] : n \in 0..MaxEntries}]}

\* n objects, each holding the next one under its only key; the last one
\* holds the first one (a cycle) or nothing
Ring(n) == [root |-> 1, nodes |-> [i \in 1..n |-> <<(i % n) + 1>>]]
Chain(n) == [root |-> 1, nodes |-> [i \in 1..n |-> IF i < n THEN <<i + 1>> ELSE <<>>]]

\* an object with n keys, each holding an empty object of its own
Wide(n) == [root |-> 1, nodes |-> [i \in 1..(n + 1) |-> IF i = 1 THEN [k \in 1..n |-> k + 1] ELSE <<>>]]

\* an object with n keys, each holding an object with m scalar keys, and a
\* last key that holds the object itself
Fat(n, m) ==
    [root |-> 1,
     nodes |-> [i \in 1..(n + 1) |->
                   IF i = 1 THEN [k \in 1..(n + 1) |-> IF k <= n THEN k + 1 ELSE 1]
                   ELSE [k \in 1..m |-> 0]]]

\* an object whose two keys hold two objects that hold the same fourth one
Diamond == [root |-> 1, nodes |-> <<(<<2, 0, 3>>), (<<4>>), (<<0, 4>>), (<<>>)>>]

NotAnObject == [root |-> 0, nodes |-> <<>>]

GraphInputs ==
    SmallGraphs
    \cup {Ring(n) : n \in 1..MaxRing}
    \cup {NotAnObject, Diamond,
          Chain(ChainDepth), Chain(MAX_ITERATIONS + Excess),
          Wide(MAX_ITERATIONS + Excess),
          Fat(5, 2 * MAX_KEY_SCORE + Excess)}

\* the arguments of calculateImpact
Repeat(c, n) == [i \in 1..n |-> c]
ImpactItems == {Num(-12), Str(<<"a", "a", "a">>), Bool(TRUE), Date(5), Null, Arr(<<Num(1)>>)}
ImpactInputs ==
    {Num(0), Num(-12), Dec(15, 1), Num(MAX_NUMBER_IMPACT), Num(MAX_NUMBER_IMPACT + Excess),
     Num(-2 * MAX_NUMBER_IMPACT), Bool(TRUE), Bool(FALSE), Date(5), Null,
     Str(<<>>), Str(T_sep),
     Str(Repeat("x", 10 * MAX_TEXT_IMPACT)), Str(Repeat("x", 10 * MAX_TEXT_IMPACT + Excess)),
     Arr([i \in 1..LIST_LIMIT |-> Num(i)]),
     Arr([i \in 1..(LIST_LIMIT + Excess) |-> Num(i)]),
     Obj([i \in 1..MAP_LIMIT |-> Prop(natToString(i), Num(i))]),
     Obj([i \in 1..(MAP_LIMIT + Excess) |-> Prop(natToString(i), Num(i))]),
     Arr(<<Arr([i \in 1..(LIST_LIMIT + Excess) |-> Num(1)]),
           Obj([i \in 1..(MAP_LIMIT + Excess) |-> Prop(natToString(i), Bool(TRUE))])>>),
     Obj(<<Prop(T_k, Obj(<<Prop(T_a, Arr(<<Str(T_sep), Num(3)>>))>>))>>)}
    \cup {Arr(a) : a \in UNION {[1..n -> ImpactItems] : n \in 0..MaxItems}}
    \cup {Obj([i \in 1..Len(a) |-> Prop(natToString(i), a[i])]) :
             a \in UNION {[1..n -> ImpactItems] : n \in 0..MaxItems}}

MaxEventCount == 4

\* event texts: activity::timestamp::1
Event(label, ms) == Str(join(<<label, numberToString(Num(ms)), <<"1">>>>))
E_A == Event(<<"A">>, 1)
E_B == Event(<<"B">>, 1)
E_C == Event(<<"C">>, 1)
E_short == Str(<<"b", "a", "d">>)
E_anonymous == Str(<<":", ":", "1", ":", ":", "1">>)

\* n events that repeat A, A, B after the events of prefix
Padded(prefix, n) == Arr(prefix \o [i \in 1..n |-> IF i % 3 = 0 THEN E_B ELSE E_A])

\* events whose activity labels are digit strings
E_1 == Event(<<"1">>, 1)
E_2 == Event(<<"2">>, 1)
E_10 == Event(<<"1", "0">>, 1)

\* arrays in which two successors of the last activity have the same count,
\* with labels that are letters, digit strings, or one of each
TiedInputs ==
    {Arr(<<E_A, E_B, E_A, E_C, E_A>>), Arr(<<E_A, E_C, E_A, E_B, E_A>>),
     Arr(<<E_1, E_B, E_1, E_A, E_1>>),
     Arr(<<E_A, E_A, E_1, E_A>>), Arr(<<E_A, E_1, E_A, E_A>>),
     Arr(<<E_A, E_10, E_A, E_2, E_A>>), Arr(<<E_A, E_2, E_A, E_10, E_A>>)}

\* an array in which the last activity has four successors, one of them
\* twice
BranchingInput == Arr(<<E_A, E_B, E_A, E_C, E_A, E_C, E_A, E_1, E_A, E_2, E_A>>)

LookbackInputs == {Null, Num(0), Num(MIN_LOOKBACK - 1), Num(MIN_LOOKBACK),
                   Num(MAX_LOOKBACK), Num(MAX_LOOKBACK + 1)}

\* the arguments of predictNext: every short array of events with no
\* lookback and with the least one, and arrays longer than every window
\* with every lookback
PredictInputs ==
    ({Arr(a) : a \in UNION {[1..n -> {E_A, E_B, E_C, E_short, E_anonymous}] :
                               n \in 0..MaxEventCount}}
        \X {Null, Num(MIN_LOOKBACK)})
    \cup ({Null, Arr(<<E_A, E_B, E_A, E_B, E_A>>), Arr(<<E_A, Num(7), E_A, E_B>>)}
            \cup TiedInputs \cup {BranchingInput}
            \cup {Padded(prefix, n) :
                    prefix \in {<<>>, <<E_B>>, <<E_C, E_C>>, <<E_short, E_B, E_C>>},
                    n \in {DEFAULT_LOOKBACK, MAX_LOOKBACK}})
         \X LookbackInputs

MaxTick == 4
MaxTimedCount == 3

\* timestamps half a second apart, from before the epoch on
Timestamps == {500 * k : k \in (-1)..MaxTick}

E_untimed == Str(<<"A", ":", ":", "x", ":", ":", "1">>)

\* n events, the first at ms `first`, each d ms after the one before
Spaced(first, d, n) == Arr([i \in 1..n |-> Event(<<"A">>, first + (i - 1) * d)])

\* the arguments of analyzeTemporalPattern: every short array of events with
\* these timestamps, with none or with no fields, and arrays of five events
TemporalInputs ==
    {Arr(a) : a \in UNION {[1..n -> {Event(<<"A">>, ms) : ms \in Timestamps}
                                       \cup {E_untimed, E_short}] :
                              n \in 0..MaxTimedCount}}
    \cup {Null,
          Spaced(1000, 1000, 5), Spaced(0, 1000, 5), Spaced(-500, 500, 5),
          Spaced(3, 7, 5), Spaced(5000, -1000, 5),
          Arr(<<Event(<<"A">>, 1000), Event(<<"B">>, 1100), Event(<<"A">>, 1300),
                Event(<<"B">>, 2000), Event(<<"C">>, 5000)>>),
          Arr(<<Event(<<"A">>, 1000), E_short, Event(<<"A">>, 4000), E_untimed,
                Event(<<"B">>, 4100), Num(7)>>)}

MaxCalls == 2

T_address == <<"x", "@", "y", ".", "c", "o", "m">>
T_mine == <<"m", "i", "n", "e">>

\* contexts with a sensitive key at the top, in a nested map, in a map
\* nested twice, and with a key _metadata
C_user == Obj(<<Prop(K_user, Obj(<<Prop(K_email, Str(T_address)), Prop(K_id, Num(1))>>))>>)
C_email == Obj(<<Prop(K_email, Str(T_address)), Prop(T_k, Num(1))>>)
C_deep == Obj(<<Prop(T_k, Obj(<<Prop(K_user, Obj(<<Prop(K_email, Str(T_address))>>))>>)),
                Prop(T_a, Arr(<<Num(1)>>))>>)
C_metadata == Obj(<<Prop(K_metadata, Str(T_mine)), Prop(T_k, Num(1))>>)

\* a label that decode reads as ":::a": a colon before an escape token
T_colons == <<":", "\\", ":", "a">>

\* an event text written by another producer: the value as it stands and the
\* context, when there is one, as plain JSON
Wire(label, valueText, context) ==
    Str(join(<<label, <<"1">>, valueText>>
             \o (IF context = Null THEN <<>> ELSE <<stringify(context)>>)))

\* the events handed to injectContext and sanitizeContext: events made by
\* encode at clock reading 1, events of other producers, and non-events
MutationEvents ==
    {Str(encode(in[1], in[2], in[3], CURRENT_VERSION, 1)) : in \in
        ({Str(T_a)} \X {Num(1)} \X {Null, C_user, C_email, C_deep, C_metadata})
        \cup ({Str(T_a)}
              \X {Bool(TRUE), Str(T_sep), Obj(<<Prop(T_k, Obj(<<Prop(T_a, Num(1))>>))>>)}
              \X {Null})
        \cup {<<Str(<<":">>), Num(1), Null>>}}
    \cup {Wire(T_a, <<"1">>, C_user), Wire(T_a, <<"1">>, C_deep), Wire(T_a, <<"1">>, C_metadata),
          Wire(T_a, <<"1">>, Arr(<<Num(1)>>)),
          Wire(T_a, stringify(Obj(<<Prop(T_k, Obj(<<Prop(T_a, Num(1))>>))>>)), Null),
          Wire(T_a, <<>>, Null),
          Wire(T_colons, <<"1">>, Null),
          Str(join(<<T_a, <<"1">>, <<"1">>, <<"x">>, <<"2">>>>)),
          E_short, Num(7)}

\* the keysToSanitize option: absent, one key, no key
KeysInputs == {Null, Arr(<<Str(K_email)>>), Arr(<<>>)}

\* the additionalContext argument: maps without and with a key of the
\* existing context and with a key _metadata, and no map
AdditionalInputs ==
    {Obj(<<>>),
     Obj(<<Prop(T_k, Num(2))>>),
     Obj(<<Prop(K_metadata, Num(2)), Prop(T_a, Bool(TRUE))>>),
     Null}

\* the source option: absent or a label
SourceInputs == {Null, Str(T_mine)}

MaxBatchCount == 3

\* the maxEvents option: absent, 0, negative, small, and the default
MaxEventsInputs ==
    {Null, Num(0), Num(-1), Num(1), Num(MaxBatchCount - 1), Num(DEFAULT_MAX_EVENTS)}

\* the arguments of analyzePattern: every short array of events with every
\* option, an array longer than the default limit, and something that is no
\* array
BatchInputs ==
    ({Arr(a) : a \in UNION {[1..n -> {Event(<<"A">>, 1000), Event(<<"B">>, 4000),
                                       Str(encode(Str(T_a), Str(<<"x", "x">>), C_user,
                                                  CURRENT_VERSION, 2000)),
                                       E_short, Event(<<>>, 3000)}] :
                               n \in 0..MaxBatchCount}}
        \X MaxEventsInputs)
    \cup ({Arr([i \in 1..(DEFAULT_MAX_EVENTS + Excess) |-> E_A]), Null}
            \X {Null, Num(0), Num(1), Num(DEFAULT_MAX_EVENTS)})

(***************************************************************************)
(* State: the last call of the library and what it returned                *)
(***************************************************************************)
VARIABLES
    now,            \* the reading of Date.now() taken by the call in hand
    op,             \* the call in hand: "idle", "encode", "decode",
                    \* "decodeText", "complexity", "impact"
    activity,       \* the arguments of the last encode
    value,
    context,
    version,
    hdd,            \* the text returned by encode or handed to decode
    rec,            \* what decode returned
    graph,          \* the argument of measureContextComplexity
    stack,          \* its work stack, the top last
    visited,        \* its WeakSet of objects
    iterationCount,
    complexity,     \* its running score, in half points
    pc,             \* "none", "loop" (in the while loop) or "done" (returned)
    result,         \* the score it returned, in half points
    scoreLog,       \* history: the objects scored, in order
    impactArg,      \* the argument of calculateImpact
    impact,         \* what calculateImpact returned
    events,         \* the array handed to predictNext or to an analysis
    lookback,       \* the lookback option of predictNext, null when absent
    prediction,     \* what predictNext returned
    temporal,       \* what analyzeTemporalPattern returned
    event,          \* the event handed to injectContext or sanitizeContext
    keysToSanitize, \* the option of sanitizeContext, null when absent
    additional,     \* the additionalContext of injectContext
    source,         \* the source option of injectContext, null when absent
    passed,         \* the context the call handed to encode
    output,         \* the text the call returned, or Thrown
    original,       \* history: the event the first call of the chain was given
    calls,          \* history: the number of calls of the chain
    maxEvents,      \* the maxEvents option of analyzePattern, null when absent
    report,         \* what analyzePattern returned
    decodeCount     \* history: the events it handed to decode

codecVars == <<activity, value, context, version, hdd, rec>>
measureVars == <<graph, stack, visited, iterationCount, complexity, pc, result, scoreLog>>
impactVars == <<impactArg, impact>>
predictVars == <<events, lookback, prediction>>
temporalVars == <<temporal>>
mutationVars == <<event, keysToSanitize, additional, source, passed, output, original, calls>>
batchVars == <<maxEvents, report, decodeCount>>
apiVars == <<predictVars, temporalVars, mutationVars, batchVars>>
vars == <<now, op, codecVars, measureVars, impactVars, apiVars>>

NoCodec(a, v, c, ver, h, r) ==
    /\ a = Null
    /\ v = Null
    /\ c = Null
    /\ ver = CURRENT_VERSION
    /\ h = Null
    /\ r = Null

NoMeasure(g, st, vis, it, cx, p, res, log) ==
    /\ g = NotAnObject
    /\ st = <<>>
    /\ vis = {}
    /\ it = 0
    /\ cx = 0
    /\ p = "none"
    /\ res = 0
    /\ log = <<>>

NoImpact(arg, imp) ==
    /\ arg = Null
    /\ imp = Num(0)

NoPredict(ev, look, pred) ==
    /\ ev = Null
    /\ look = Null
    /\ pred = Null

NoTemporal(temp) == temp = Null

NoMutation(ev, keys, add, src, pass, out, orig, n) ==
    /\ ev = Null
    /\ keys = Null
    /\ add = Null
    /\ src = Null
    /\ pass = Null
    /\ out = Null
    /\ orig = Null
    /\ n = 0

NoBatch(limit, rep, n) ==
    /\ limit = Null
    /\ rep = Null
    /\ n = 0

Init ==
    /\ now = 0
    /\ op = "idle"
    /\ NoCodec(activity, value, context, version, hdd, rec)
    /\ NoMeasure(graph, stack, visited, iterationCount, complexity, pc, result, scoreLog)
    /\ NoImpact(impactArg, impact)
    /\ NoPredict(events, lookback, prediction)
    /\ NoTemporal(temporal)
    /\ NoMutation(event, keysToSanitize, additional, source, passed, output, original, calls)
    /\ NoBatch(maxEvents, report, decodeCount)

\* encode(a, v, c, ver), reading the clock
Encode ==
    /\ op = "idle"
    /\ \E in \in EncodeInputs, timestamp \in 1..MaxClock :
        /\ now' = timestamp
        /\ op' = "encode"
        /\ activity' = in[1]
        /\ value' = in[2]
        /\ context' = in[3]
        /\ version' = in[4]
        /\ hdd' = Str(encode(in[1], in[2], in[3], in[4], timestamp))
        /\ rec' = Null
    /\ UNCHANGED <<measureVars, impactVars, apiVars>>

\* decode applied to the text the last encode returned
Decode ==
    /\ op = "encode"
    /\ op' = "decode"
    /\ rec' = decode(hdd)
    /\ UNCHANGED <<now, activity, value, context, version, hdd, measureVars, impactVars, apiVars>>

\* decode applied to a text from elsewhere
DecodeText ==
    /\ op = "idle"
    /\ \E text \in WireInputs :
        /\ op' = "decodeText"
        /\ hdd' = text
        /\ rec' = decode(text)
    /\ UNCHANGED <<now, activity, value, context, version, measureVars, impactVars, apiVars>>

\* measureContextComplexity(context) up to the while loop (hdd-api.js 37-42)
MeasureStart ==
    /\ op = "idle"
    /\ \E g \in GraphInputs :
        /\ op' = "complexity"
        /\ graph' = g
        /\ IF g.root = 0
           THEN /\ pc' = "done"
                /\ stack' = <<>>
           ELSE /\ pc' = "loop"
                /\ stack' = <<Frame(g.root, 0)>>
        /\ visited' = {}
        /\ iterationCount' = 0
        /\ complexity' = 0
        /\ result' = 0
        /\ scoreLog' = <<>>
    /\ UNCHANGED <<now, codecVars, impactVars, apiVars>>

\* the loop iteration without the visited test
MeasureStepNoCycleGuard ==
    /\ pc = "loop"
    /\ stack # <<>>
    /\ iterationCount < MAX_ITERATIONS
    /\ iterationCount' = iterationCount + 1
    /\ LET top == stack[Len(stack)]
           rest == SubSeq(stack, 1, Len(stack) - 1)
       IN IF top.depth > maxDepth
          THEN /\ complexity' = complexity + 2 * DEPTH_PENALTY
               /\ stack' = rest
               /\ UNCHANGED <<visited, scoreLog>>
          ELSE /\ visited' = visited \cup {top.obj}
               /\ complexity' = complexity + nodeScore(graph.nodes, top.obj)
               /\ stack' = rest \o pushedFrames(graph.nodes, top.obj, top.depth)
               /\ scoreLog' = Append(scoreLog, top.obj)
    /\ UNCHANGED <<now, op, codecVars, graph, pc, result, impactVars, apiVars>>

\* the loop iteration that descends into an object beyond maxDepth after
\* adding the penalty
MeasureStepDescendsBeyondCap ==
    /\ pc = "loop"
    /\ stack # <<>>
    /\ iterationCount < MAX_ITERATIONS
    /\ iterationCount' = iterationCount + 1
    /\ LET top == stack[Len(stack)]
           rest == SubSeq(stack, 1, Len(stack) - 1)
       IN IF top.depth > maxDepth
          THEN /\ complexity' = complexity + 2 * DEPTH_PENALTY
               /\ stack' = rest \o pushedFrames(graph.nodes, top.obj, top.depth)
               /\ UNCHANGED <<visited, scoreLog>>
          ELSE IF top.obj \in visited
          THEN /\ complexity' = complexity + 2 * CYCLE_PENALTY
               /\ stack' = rest
               /\ UNCHANGED <<visited, scoreLog>>
          ELSE /\ visited' = visited \cup {top.obj}
               /\ complexity' = complexity + nodeScore(graph.nodes, top.obj)
               /\ stack' = rest \o pushedFrames(graph.nodes, top.obj, top.depth)
               /\ scoreLog' = Append(scoreLog, top.obj)
    /\ UNCHANGED <<now, op, codecVars, graph, pc, result, impactVars, apiVars>>

\* one iteration of the while loop (hdd-api.js 44-74)
MeasureStep ==
    /\ pc = "loop"
    /\ stack # <<>>
    /\ iterationCount < MAX_ITERATIONS
    /\ iterationCount' = iterationCount + 1
    /\ LET top == stack[Len(stack)]
           rest == SubSeq(stack, 1, Len(stack) - 1)
       IN IF top.depth > maxDepth
          THEN /\ complexity' = complexity + 2 * DEPTH_PENALTY
               /\ stack' = rest
               /\ UNCHANGED <<visited, scoreLog>>
          ELSE IF top.obj \in visited
          THEN /\ complexity' = complexity + 2 * CYCLE_PENALTY
               /\ stack' = rest
               /\ UNCHANGED <<visited, scoreLog>>
          ELSE /\ visited' = visited \cup {top.obj}
               /\ complexity' = complexity + nodeScore(graph.nodes, top.obj)
               /\ stack' = rest \o pushedFrames(graph.nodes, top.obj, top.depth)
               /\ scoreLog' = Append(scoreLog, top.obj)
    /\ UNCHANGED <<now, op, codecVars, graph, pc, result, impactVars, apiVars>>

\* the loop ends: return Math.min(complexity, 100) (hdd-api.js 75)
MeasureReturn ==
    /\ pc = "loop"
    /\ stack = <<>> \/ iterationCount >= MAX_ITERATIONS
    /\ pc' = "done"
    /\ result' = finalScore(complexity)
    /\ UNCHANGED <<now, op, codecVars, graph, stack, visited, iterationCount, complexity,
                   scoreLog, impactVars, apiVars>>

\* calculateImpact(v)
Impact ==
    /\ op = "idle"
    /\ \E v \in ImpactInputs :
        /\ op' = "impact"
        /\ impactArg' = v
        /\ impact' = calculateImpact(v)
    /\ UNCHANGED <<now, codecVars, measureVars, apiVars>>

\* predictNext(events, {lookback})
Predict ==
    /\ op = "idle"
    /\ \E input \in PredictInputs :
        /\ op' = "predict"
        /\ events' = input[1]
        /\ lookback' = input[2]
        /\ prediction' = predictNext(input[1], input[2])
    /\ UNCHANGED <<now, codecVars, measureVars, impactVars, temporalVars, mutationVars,
                   batchVars>>

\* analyzeTemporalPattern(events)
Temporal ==
    /\ op = "idle"
    /\ \E input \in TemporalInputs :
        /\ op' = "temporal"
        /\ events' = input
        /\ temporal' = analyzeTemporalPattern(input)
    /\ UNCHANGED <<now, codecVars, measureVars, impactVars, lookback, prediction,
                   mutationVars, batchVars>>

\* sanitizeContext(event, {keysToSanitize}), on an event from outside or on
\* the text the call before returned
Sanitize ==
    /\ op \in {"idle", "sanitize", "inject"}
    /\ op # "idle" => (output.t = "str" /\ calls < MaxCalls)
    /\ \E hddEvent \in (IF op = "idle" THEN MutationEvents ELSE {output}),
          keys \in (IF op = "idle" THEN KeysInputs ELSE {Null}),
          timestamp \in Max({1, now})..MaxClock :
        \E returned \in {sanitizeContext(hddEvent, keys, timestamp)} :
            /\ op' = "sanitize"
            /\ now' = timestamp
            /\ event' = hddEvent
            /\ keysToSanitize' = keys
            /\ passed' = returned.passed
            /\ output' = returned.output
            /\ original' = IF op = "idle" THEN hddEvent ELSE original
    /\ calls' = calls + 1
    /\ additional' = Null
    /\ source' = Null
    /\ UNCHANGED <<codecVars, measureVars, impactVars, predictVars, temporalVars, batchVars>>

\* injectContext(event, additionalContext, {source}), on an event from
\* outside or on the text the call before returned
Inject ==
    /\ op \in {"idle", "sanitize", "inject"}
    /\ op # "idle" => (output.t = "str" /\ calls < MaxCalls)
    /\ \E hddEvent \in (IF op = "idle" THEN MutationEvents ELSE {output}),
          additionalContext \in (IF op = "idle" THEN AdditionalInputs
                                 ELSE {Obj(<<Prop(T_k, Num(2))>>)}),
          label \in (IF op = "idle" THEN SourceInputs ELSE {Null}),
          injected \in Max({1, now})..MaxClock :
        \E timestamp \in injected..MaxClock :
            \E returned \in {injectContext(hddEvent, additionalContext, label, injected,
                                            timestamp)} :
                /\ op' = "inject"
                /\ now' = timestamp
                /\ event' = hddEvent
                /\ additional' = additionalContext
                /\ source' = label
                /\ passed' = returned.passed
                /\ output' = returned.output
                /\ original' = IF op = "idle" THEN hddEvent ELSE original
    /\ calls' = calls + 1
    /\ keysToSanitize' = Null
    /\ UNCHANGED <<codecVars, measureVars, impactVars, predictVars, temporalVars, batchVars>>

\* analyzePattern(events, {maxEvents})
AnalyzePattern ==
    /\ op = "idle"
    /\ \E input \in BatchInputs :
        \E returned \in {analyzePattern(input[1], input[2])} :
            /\ op' = "analyze"
            /\ events' = input[1]
            /\ maxEvents' = input[2]
            /\ report' = returned.report
            /\ decodeCount' = returned.decoded
    /\ UNCHANGED <<now, codecVars, measureVars, impactVars, lookback, prediction, temporalVars,
                   mutationVars>>

\* the caller drops the results; the library keeps nothing between calls
Return ==
    /\ op # "idle"
    /\ op = "complexity" => pc = "done"
    /\ op' = "idle"
    /\ NoCodec(activity', value', context', version', hdd', rec')
    /\ NoMeasure(graph', stack', visited', iterationCount', complexity', pc', result', scoreLog')
    /\ NoImpact(impactArg', impact')
    /\ NoPredict(events', lookback', prediction')
    /\ NoTemporal(temporal')
    /\ NoMutation(event', keysToSanitize', additional', source', passed', output', original',
                  calls')
    /\ NoBatch(maxEvents', report', decodeCount')
    /\ now' = 0

Next ==
    \/ Encode
    \/ Decode
    \/ DecodeText
    \/ MeasureStart
    \/ MeasureStep
    \/ MeasureReturn
    \/ Impact
    \/ Predict
    \/ Temporal
    \/ Sanitize
    \/ Inject
    \/ AnalyzePattern
    \/ Return

Spec == Init /\ [][Next]_vars

(***************************************************************************)
(* Properties of the codec                                                 *)
(***************************************************************************)
IsScalar(v) == v.t \in {"num", "bool", "str"}
IsActivityText(v) == v.t = "str" /\ v.s # <<>>
containsSeparator(s) == \E i \in 1..(Len(s) - 1) : s[i] = ":" /\ s[i + 1] = ":"

\* the record decode returned for the arguments of the last encode
RoundTripDone == op = "decode" /\ IsActivityText(activity)

\* C1: for every non-empty activity text a and every scalar value v (number,
\* boolean or text), decode(encode(a, v)) is a record with activity a and
\* value v, same type and content.
C1_ScalarRoundTrip ==
    (RoundTripDone /\ IsScalar(value) /\ context = Null /\ version = CURRENT_VERSION)
        => (rec.t = "rec" /\ rec.activity = activity.s /\ rec.value = value)

\* C2: for every activity text and every text value holding one or more
\* occurrences of '::', encode followed by decode returns the activity and
\* the text value unchanged.
C2_EscapingRoundTrip ==
    (RoundTripDone /\ value.t = "str" /\ context = Null /\ version = CURRENT_VERSION
     /\ containsSeparator(value.s))
        => (rec.t = "rec" /\ rec.activity = activity.s /\ rec.value.t = "str"
            /\ rec.value.s = value.s)

\* C3: every non-failure text returned by encode splits on '::' into at least
\* 3 and at most 5 parts, all of them non-empty.
C3_EncodedRecordInvariant ==
    (op = "encode" /\ hdd.s # <<>>)
        => LET parts == split(hdd.s)
           IN /\ Len(parts) >= 3
              /\ Len(parts) <= 5
              /\ \A i \in 1..Len(parts) : parts[i] # <<>>

\* C4: a record encoded without a context decodes to a null context and to
\* the version it was encoded with, and one encoded with a context decodes
\* to the version it was encoded with.
C4_OmittedFieldsKeepRoles ==
    (RoundTripDone /\ activity = Str(T_a) /\ value = Num(1) /\ version # <<>>
     /\ ~containsSeparator(version) /\ context.t \in {"null", "obj"})
        => /\ rec.t = "rec"
           /\ context = Null => rec.context = Null
           /\ rec.version = version

\* a map whose values are numbers, booleans and separator-free texts
IsFlatContext(c) ==
    /\ c.t = "obj"
    /\ \A i \in 1..Len(c.p) :
          /\ IsScalar(c.p[i].v)
          /\ c.p[i].v.t = "str" => ~containsSeparator(c.p[i].v.s)

\* C5: decode(encode(a, v, ctx)).context has the same top-level keys and
\* values as ctx, whether or not the serialized ctx is longer than 1000
\* characters.
C5_EnvelopeTransparency ==
    (RoundTripDone /\ value = Num(1) /\ version = CURRENT_VERSION /\ IsFlatContext(context))
        => (rec.t = "rec" /\ rec.context = context)

\* the number of fields of a text, counting the separators from the left
fieldCount(s) == Cardinality({i \in 1..Len(s) : separatorAt(s, i)}) + 1

\* the structural reasons for decode to fail
StructuralFailure(h) == h.t # "str" \/ Len(h.s) < 5 \/ fieldCount(h.s) < 3

\* C6: decode returns the failure value exactly for a structural reason (the
\* input is not a text, is shorter than 5 characters or has fewer than 3
\* fields) and a record otherwise, whatever the timestamp, value, context
\* and version fields hold.
C6_DecodeFailsOnlyStructurally ==
    (op \in {"decode", "decodeText"})
        => /\ rec = Null <=> StructuralFailure(hdd)
           /\ rec # Null => rec.t = "rec"

\* a text of three fields or more with a non-numeric timestamp and a value or
\* a context that does not parse has been decoded to a record
C6_Witness ==
    /\ op = "decodeText"
    /\ rec.t = "rec"
    /\ rec.timestamp = NaN
    /\ rec.value = Str(<<"{", "a", "}">>)
    /\ rec.context = Str(<<"{", "a">>)

\* C7 as stated: for every text whose split on '::' does not yield at least
\* 3 non-empty parts, decode returns the failure value.
C7_DecodeRejectsInvalid ==
    (op = "decodeText" /\ hdd.t = "str"
     /\ LET parts == split(hdd.s)
        IN Len(parts) < 3 \/ \E i \in 1..Len(parts) : parts[i] = <<>>)
        => rec = Null

\* C7 (amended): for every text whose split on '::' yields fewer than 3 parts,
\* decode returns the failure value; a text of 5 characters or more with 3
\* parts or more is decoded to a record even when some of its parts are
\* empty, the empty parts being kept as they are.
C7_DecodeRejectsFewParts ==
    (op = "decodeText" /\ hdd.t = "str")
        => LET parts == split(hdd.s)
           IN /\ Len(parts) < 3 => rec = Null
              /\ (Len(parts) >= 3 /\ Len(hdd.s) >= 5)
                    => /\ rec.t = "rec"
                       /\ parts[1] = <<>> => rec.activity = <<>>
                       /\ parts[2] = <<>> => rec.timestamp = NaN
                       /\ parts[3] = <<>> => rec.value = Str(<<>>)

\* a text of 5 characters or more with fewer than 3 parts was rejected
C7_Witness ==
    /\ op = "decodeText"
    /\ hdd.t = "str"
    /\ Len(hdd.s) >= 5
    /\ fieldCount(hdd.s) = 2
    /\ rec = Null

(***************************************************************************)
(* Properties of the complexity analyzer                                   *)
(***************************************************************************)
\* C8: for every context (any nesting, any key counts, cyclic or not, not an
\* object) measureContextComplexity returns a number in [0, 100].
C8_ComplexityBounds ==
    (op = "complexity" /\ pc = "done")
        => (result >= 0 /\ result <= 2 * 100)

\* the clamp acted: the running score was above 100 and 100 was returned
C8_Witness ==
    /\ op = "complexity"
    /\ pc = "done"
    /\ complexity > 2 * 100
    /\ result = 2 * 100

\* the loop is about to pop an object that is in the visited set
PopsVisited == pc = "loop" /\ stack # <<>> /\ stack[Len(stack)].obj \in visited

\* a step of the while loop
LoopIteration == pc = "loop" /\ pc' = "loop" /\ iterationCount' = iterationCount + 1

\* the step scores an object: it must not have been scored before
ScoresFreshObject ==
    (pc = "loop" /\ scoreLog' # scoreLog)
        => /\ Len(scoreLog') = Len(scoreLog) + 1
           /\ \A i \in 1..Len(scoreLog) : scoreLog[i] # scoreLog'[Len(scoreLog')]

\* the parts of C9 that do not concern the penalty: the loop makes at most
\* 1000 iterations, every pop is an iteration, the call returns once the
\* count is reached or the stack is empty, and no object is scored twice
TraversalBounded ==
    /\ iterationCount <= 1000
    /\ Len(scoreLog) <= iterationCount
    /\ pc = "loop" => ENABLED (MeasureStep \/ MeasureReturn)
    /\ (pc = "loop" /\ (stack = <<>> \/ iterationCount >= 1000)) => ~ENABLED MeasureStep
    /\ ScoresFreshObject

\* C9 as stated: the traversal ends after at most 1000 iterations, scores no
\* object twice, and adds the penalty 5 each time an already-visited object
\* is popped.
C9_CyclePenaltyAlways ==
    [][/\ TraversalBounded
       /\ (LoopIteration /\ PopsVisited) => complexity' = complexity + 2 * 5]_vars

\* C9 (amended): the traversal ends after at most 1000 iterations, scores no
\* object twice, and adds the penalty 5 each time an already-visited object
\* is popped at a depth of at most 8; an object popped at depth 9 adds the
\* overflow penalty 10 instead, visited or not.
C9_CyclePenaltyWithinDepth ==
    [][/\ TraversalBounded
       /\ (LoopIteration /\ PopsVisited)
             => /\ stack[Len(stack)].depth <= 8 => complexity' = complexity + 2 * 5
                /\ stack[Len(stack)].depth > 8 => complexity' = complexity + 2 * 10
                /\ scoreLog' = scoreLog
                /\ Len(stack') = Len(stack) - 1]_vars

\* a cycle of two maps was traversed to the end: both were scored once, the
\* root was popped again at depth 2 and added the penalty 5
C9_Witness ==
    /\ op = "complexity"
    /\ pc = "done"
    /\ graph = Ring(2)
    /\ scoreLog = <<1, 2>>
    /\ iterationCount = 3
    /\ complexity = nodeScore(graph.nodes, 1) + nodeScore(graph.nodes, 2) + 2 * 5

(***************************************************************************)
(* Properties of the impact calculator                                     *)
(***************************************************************************)
RECURSIVE HasNull(_)
HasNull(v) ==
    CASE v.t = "null" -> TRUE
      [] v.t = "arr" -> \E i \in 1..Len(v.a) : HasNull(v.a[i])
      [] v.t = "obj" -> \E i \in 1..Len(v.p) : HasNull(v.p[i].v)
      [] OTHER -> FALSE

\* the sum of f[lo..hi] for a function f to integers
RECURSIVE tenthsSum(_, _, _)
tenthsSum(f, lo, hi) ==
    IF lo > hi THEN 0
    ELSE IF lo = hi THEN f[lo]
    ELSE tenthsSum(f, lo, (lo + hi) \div 2) + tenthsSum(f, ((lo + hi) \div 2) + 1, hi)

\* the impact stated by C10, in tenths, for a value whose numbers have at
\* most one decimal
RECURSIVE ExpectedImpactTenths(_)
ExpectedImpactTenths(v) ==
    CASE v.t = "num" ->
            LET tenths == (IF v.m < 0 THEN -v.m ELSE v.m) * (IF v.e = 0 THEN 10 ELSE 1)
            IN IF tenths > 10000 THEN 10000 ELSE tenths
      [] v.t = "str" -> IF Len(v.s) > 1000 THEN 1000 ELSE Len(v.s)
      [] v.t = "bool" -> IF v.b THEN 10 ELSE 0
      [] v.t = "date" -> 10
      [] v.t = "arr" ->
            LET n == IF Len(v.a) > 100 THEN 100 ELSE Len(v.a)
            IN tenthsSum([i \in 1..n |-> ExpectedImpactTenths(v.a[i])], 1, n)
      [] v.t = "obj" ->
            LET n == IF Len(v.p) > 50 THEN 50 ELSE Len(v.p)
            IN tenthsSum([i \in 1..n |-> ExpectedImpactTenths(v.p[i].v)], 1, n)

\* C10: calculateImpact returns a number >= 0, equal to min(|x|, 1000) for a
\* number, min(0.1 * length, 100) for a text, 0 or 1 for a boolean, 1 for a
\* temporal value, the sum of the impacts of at most the first 100 elements
\* for a list and of at most the first 50 values for a map, at every nesting
\* level.
C10_ImpactByVariant ==
    (op = "impact")
        => /\ impact.t = "num"
           /\ impact.m >= 0
           /\ ~HasNull(impactArg) => impact = Dec(ExpectedImpactTenths(impactArg), 1)

\* a list of more than 100 elements, holding a list of more than 100
\* elements and a map of more than 50 values, or a scalar above its cap, got
\* its impact
C10_Witness ==
    /\ op = "impact"
    /\ impactArg.t = "arr"
    /\ Len(impactArg.a) = 2
    /\ impactArg.a[1].t = "arr"
    /\ Len(impactArg.a[1].a) > 100
    /\ impactArg.a[2].t = "obj"
    /\ Len(impactArg.a[2].p) > 50
    /\ impact = Num(150)


(***************************************************************************)
(* Properties of the predictor                                             *)
(***************************************************************************)
\* the number of trailing elements predictNext looks at
WindowLength(look) ==
    IF look # Null /\ look.m >= MIN_LOOKBACK /\ look.m <= MAX_LOOKBACK
    THEN look.m ELSE DEFAULT_LOOKBACK

\* the last n elements of a sequence, all of them when it has fewer
LastElements(a, n) == SubSeq(a, Max({1, Len(a) - n + 1}), Len(a))

\* the activities of the records of the window that decode and have one
WindowActivities(ev, look) ==
    LET window == LastElements(ev.a, WindowLength(look))
        kept == SelectSeq(window, LAMBDA e : decode(e) # Null /\ decode(e).activity # <<>>)
    IN [i \in 1..Len(kept) |-> decode(kept[i]).activity]

\* how often `to` follows the last activity of acts
SuccessorCount(acts, to) ==
    Cardinality({i \in 1..(Len(acts) - 1) : acts[i] = acts[Len(acts)] /\ acts[i + 1] = to})

\* how many transitions leave the last activity of acts
OutgoingCount(acts) ==
    Cardinality({i \in 1..(Len(acts) - 1) : acts[i] = acts[Len(acts)]})

\* next is a most frequent successor of the last activity, and confidence
\* (in hundredths) is its share of the outgoing transitions, rounded
IsMarkovPrediction(pred, acts) ==
    /\ pred.next # Null
    /\ \A i \in 1..Len(acts) : SuccessorCount(acts, pred.next.s) >= SuccessorCount(acts, acts[i])
    /\ SuccessorCount(acts, pred.next.s) >= 1
    /\ 200 * SuccessorCount(acts, pred.next.s) - OutgoingCount(acts)
           < 2 * OutgoingCount(acts) * pred.confidence
    /\ 2 * OutgoingCount(acts) * pred.confidence
           <= 200 * SuccessorCount(acts, pred.next.s) + OutgoingCount(acts)

\* C11: whenever the last activity of the window has an outgoing transition
\* in the window, predictNext returns the successor with the highest count
\* and, as confidence, that count over the outgoing total rounded to 2
\* decimals; the activities A, B, A, B, A give B, 1.0 and strong_sequence.
C11_MarkovPrediction ==
    (op = "predict" /\ events.t = "arr")
        => /\ OutgoingCount(WindowActivities(events, lookback)) >= 1
                => IsMarkovPrediction(prediction, WindowActivities(events, lookback))
           /\ events = Arr(<<E_A, E_B, E_A, E_B, E_A>>)
                => /\ prediction.next = Str(<<"B">>)
                   /\ prediction.confidence = 100
                   /\ prediction.pattern = "strong_sequence"

\* C11, for arrays of at least 3 events: the prediction is the most
\* frequent successor with its rounded share
C11_MarkovPredictionFromThree ==
    (op = "predict" /\ events.t = "arr" /\ Len(events.a) >= MIN_EVENTS)
        => /\ OutgoingCount(WindowActivities(events, lookback)) >= 1
                => IsMarkovPrediction(prediction, WindowActivities(events, lookback))
           /\ events = Arr(<<E_A, E_B, E_A, E_B, E_A>>)
                => /\ prediction.next = Str(<<"B">>)
                   /\ prediction.confidence = 100
                   /\ prediction.pattern = "strong_sequence"

C11_Witness ==
    /\ op = "predict"
    /\ events = Arr(<<E_A, E_B, E_A, E_B, E_A>>)
    /\ prediction.next = Str(<<"B">>)
    /\ prediction.confidence = 100

\* C12: predictNext returns an insufficient-data outcome (next null,
\* confidence 0) when the window holds fewer than 2 records that decode and
\* have an activity, and builds the transition table whenever it holds at
\* least 2, arrays of exactly 2 events included.
C12_InsufficientDataThreshold ==
    (op = "predict" /\ events.t = "arr")
        => IF Len(WindowActivities(events, lookback)) < MIN_VALID_EVENTS
           THEN /\ prediction.next = Null
                /\ prediction.confidence = 0
                /\ prediction.pattern \in {"insufficient_data", "no_valid_activities"}
           ELSE prediction.pattern \notin {"insufficient_data", "no_valid_activities"}

\* C13: the prediction is the one predictNext gives for the last L elements
\* alone, L being the lookback when it is in 3..50 and 10 otherwise; so two
\* arrays with the same last L elements get the same prediction.
C13_LookbackWindowIndependence ==
    (op = "predict" /\ events.t = "arr" /\ Len(events.a) >= WindowLength(lookback))
        => prediction = predictNext(Arr(LastElements(events.a, WindowLength(lookback))),
                                    lookback)

C13_Witness ==
    /\ op = "predict"
    /\ lookback = Num(MAX_LOOKBACK)
    /\ events = Padded(<<E_C, E_C>>, MAX_LOOKBACK)
    /\ prediction.activity_count = Num(MAX_LOOKBACK)


(***************************************************************************)
(* Properties of the temporal analysis                                     *)
(***************************************************************************)
\* the timestamps of the events that decode with a number for a timestamp
DecodableTimestamps(ev) ==
    LET kept == SelectSeq(ev.a, LAMBDA e : decode(e) # Null /\ decode(e).timestamp # NaN)
    IN [i \in 1..Len(kept) |-> decode(kept[i]).timestamp.m]

\* the timestamps the analysis uses: of those, the ones that are not 0
UsedTimestamps(ev) == SelectSeq(DecodableTimestamps(ev), LAMBDA ms : ms # 0)

\* consecutive timestamps are d ms apart
EquallySpaced(ts, d) == \A i \in 1..(Len(ts) - 1) : ts[i + 1] - ts[i] = d

\* C14: n >= 2 decodable events with timestamps exactly d ms apart (d > 0)
\* give average_interval_ms = d, consistency = 1 and frequency_per_minute =
\* round(60000 / d); five events 1000 ms apart give 1000, 1.0 and 60; fewer
\* than 2 decodable timestamps give null.
C14_EquallySpacedEvents ==
    (op = "temporal" /\ events.t = "arr")
        => LET ts == DecodableTimestamps(events)
           IN /\ Len(ts) < 2 => temporal = Null
              /\ (Len(ts) >= 2 /\ ts[2] > ts[1] /\ EquallySpaced(ts, ts[2] - ts[1]))
                    => /\ temporal # Null
                       /\ temporal.average_interval_ms = ts[2] - ts[1]
                       /\ temporal.consistency = 100
                       /\ 2 * (ts[2] - ts[1]) * temporal.frequency_per_minute
                              \in (2 * MS_PER_MINUTE - (ts[2] - ts[1]) + 1)
                                      ..(2 * MS_PER_MINUTE + (ts[2] - ts[1]))
              /\ events = Spaced(1000, 1000, 5)
                    => /\ temporal.average_interval_ms = 1000
                       /\ temporal.consistency = 100
                       /\ temporal.frequency_per_minute = 60

\* C15: with at least 2 decodable timestamps the trend is 'accelerating'
\* when the last interval is strictly below the average interval and
\* 'decelerating' otherwise, and never anything else.
C15_TrendOfDecodable ==
    (op = "temporal" /\ events.t = "arr" /\ Len(DecodableTimestamps(events)) >= 2)
        => LET ts == DecodableTimestamps(events)
               n == Len(ts)
           IN /\ temporal # Null
              /\ temporal.trend =
                    IF (ts[n] - ts[n - 1]) * (n - 1) < ts[n] - ts[1]
                    THEN "accelerating" ELSE "decelerating"

\* C15, amended: with the timestamps the analysis uses (decodable and not
\* 0), the trend is 'stable' when there are exactly 2 of them, that is a
\* single interval; with 3 or more it is 'accelerating' when the last
\* interval is strictly below the average interval and 'decelerating'
\* otherwise; with fewer than 2 there is no result.
C15_TrendOfIntervals ==
    (op = "temporal" /\ events.t = "arr")
        => LET ts == UsedTimestamps(events)
               n == Len(ts)
           IN IF n < 2 THEN temporal = Null
              ELSE /\ temporal # Null
                   /\ temporal.trend =
                         IF n = 2 THEN "stable"
                         ELSE IF (ts[n] - ts[n - 1]) * (n - 1) < ts[n] - ts[1]
                              THEN "accelerating" ELSE "decelerating"

\* three timestamps with the last interval equal to the average one
C15_Witness ==
    /\ op = "temporal"
    /\ events = Arr(<<Event(<<"A">>, 500), Event(<<"A">>, 1000), Event(<<"A">>, 1500)>>)
    /\ temporal.trend = "decelerating"

\* C16: with at least 2 decodable timestamps and a positive duration,
\* total_duration_ms is last minus first and event_density is count * 60000
\* / duration, events per minute, up to rounding; five events spanning 4000
\* ms give 75.
C16_EventDensity ==
    (op = "temporal" /\ events.t = "arr" /\ Len(DecodableTimestamps(events)) >= 2)
        => LET ts == DecodableTimestamps(events)
               n == Len(ts)
           IN /\ ts[n] > ts[1]
                    => /\ temporal # Null
                       /\ temporal.total_duration_ms = ts[n] - ts[1]
                       /\ decScale(temporal.event_density, 3) * (ts[n] - ts[1])
                              \in (1000 * (n * MS_PER_MINUTE - (ts[n] - ts[1])))
                                      ..(1000 * (n * MS_PER_MINUTE + (ts[n] - ts[1])))
              /\ events = Spaced(1000, 1000, 5) => temporal.event_density = Num(75)


(***************************************************************************)
(* Properties of injection and sanitization                                *)
(***************************************************************************)
\* the value of the property k of the property list p
PropertyValue(p, k) == p[CHOOSE i \in 1..Len(p) : p[i].k = k].v

\* the keys of a map (none for anything else)
KeysOf(v) == IF v.t = "obj" THEN {v.p[i].k : i \in 1..Len(v.p)} ELSE {}

\* C17: an event with the context {user: {email: "x@y.com", id: 1}},
\* sanitized for the key 'email', decodes to the context {user: {email:
\* "[REDACTED]", id: 1}}; in general the decoded context of the output is the
\* decoded context of the event with every sensitive key, at any depth of
\* nested maps, replaced by '[REDACTED]' and everything else as it was.
C17_NestedRedaction ==
    (op = "sanitize" /\ output # Thrown)
        => /\ (/\ keysToSanitize = Arr(<<Str(K_email)>>)
               /\ event \in {Wire(T_a, <<"1">>, C_user),
                             Str(encode(Str(T_a), Num(1), C_user, CURRENT_VERSION, 1))})
                => /\ decode(output) # Null
                   /\ decode(output).context =
                          Obj(<<Prop(K_user, Obj(<<Prop(K_email, Str(REDACTED)),
                                                    Prop(K_id, Num(1))>>))>>)
           /\ (keysToSanitize # Null /\ decode(event).context.t = "obj")
                => /\ decode(output) # Null
                   /\ decode(output).context =
                          Obj(sanitizeObject(decode(event).context.p,
                                             {keysToSanitize.a[i].s :
                                                 i \in 1..Len(keysToSanitize.a)}))

\* C18: after any chain of sanitizeContext and injectContext calls on a
\* decodable event, the result decodes to the activity, the value and the
\* version the original event decodes to.
C18_MutationPreservesRecord ==
    (op \in {"sanitize", "inject"} /\ decode(original) # Null)
        => /\ output # Thrown
           /\ decode(output) # Null
           /\ decode(output).activity = decode(original).activity
           /\ decode(output).value = decode(original).value
           /\ decode(output).version = decode(original).version

\* C19: for a decodable event and a map `additional`, the context
\* injectContext hands to encode holds every key of the existing context and
\* of `additional`, with the value of `additional` where both have the key,
\* and holds under '_metadata' the block made by the call (clock reading,
\* source, format version, operation) whatever the two maps hold there.
C19_InjectionMergeOrder ==
    (op = "inject" /\ decode(event) # Null)
        => /\ passed # Null
           /\ passed.t = "obj"
           /\ \A k \in KeysOf(decode(event).context) \cup KeysOf(additional) :
                 /\ hasKey(passed.p, k)
                 /\ PropertyValue(passed.p, k) =
                       IF k = K_metadata
                       THEN PropertyValue(passed.p, K_metadata)
                       ELSE IF k \in KeysOf(additional)
                            THEN PropertyValue(additional.p, k)
                            ELSE PropertyValue(decode(event).context.p, k)
           /\ hasKey(passed.p, K_metadata)
           /\ \E injected \in 1..now :
                 PropertyValue(passed.p, K_metadata) =
                     Obj(<<Prop(K_injected, Num(injected)),
                           Prop(K_source, IF source = Null THEN Str(DEFAULT_SOURCE) ELSE source),
                           Prop(K_version, Str(CURRENT_VERSION)),
                           Prop(K_operation, Str(OPERATION))>>)

\* an event whose context has the keys _metadata and k, injected with a map
\* that has the key k
C19_Witness ==
    /\ op = "inject"
    /\ event = Str(encode(Str(T_a), Num(1), C_metadata, CURRENT_VERSION, 1))
    /\ additional = Obj(<<Prop(T_k, Num(2))>>)
    /\ PropertyValue(passed.p, T_k) = Num(2)
    /\ PropertyValue(passed.p, K_metadata).t = "obj"


(***************************************************************************)
(* Properties of the batch analysis                                        *)
(***************************************************************************)
\* C20: for every array of events and every maxEvents the caller supplies
\* (10000 when none is supplied), an array of more than maxEvents events
\* gets the error EXCEEDED_LIMIT and no event is decoded; 10001 events with
\* maxEvents = 10000 are rejected this way.
C20_BatchLimit ==
    (op = "analyze" /\ events.t = "arr")
        => /\ Len(events.a) > (IF maxEvents = Null THEN DEFAULT_MAX_EVENTS ELSE maxEvents.m)
                => /\ report.kind = "error"
                   /\ report.code = "EXCEEDED_LIMIT"
                   /\ decodeCount = 0
           /\ (Len(events.a) = DEFAULT_MAX_EVENTS + 1 /\ maxEvents = Num(DEFAULT_MAX_EVENTS))
                => /\ report.kind = "error"
                   /\ report.code = "EXCEEDED_LIMIT"
                   /\ decodeCount = 0

\* C20, for every maxEvents other than 0: the limit is checked before
\* anything is decoded
C20_BatchLimitNonZero ==
    (op = "analyze" /\ events.t = "arr" /\ maxEvents # Num(0))
        => /\ Len(events.a) > (IF maxEvents = Null THEN DEFAULT_MAX_EVENTS ELSE maxEvents.m)
                => /\ report.kind = "error"
                   /\ report.code = "EXCEEDED_LIMIT"
                   /\ decodeCount = 0
           /\ (Len(events.a) = DEFAULT_MAX_EVENTS + 1 /\ maxEvents = Num(DEFAULT_MAX_EVENTS))
                => /\ report.kind = "error"
                   /\ report.code = "EXCEEDED_LIMIT"
                   /\ decodeCount = 0

\* the events of an array that decode to a record with an activity
DecodableEvents(ev) ==
    {i \in 1..Len(ev.a) : decode(ev.a[i]) # Null /\ decode(ev.a[i]).activity # <<>>}

\* the three outcomes of C21 for an array
BatchOutcome(ev, rep) ==
    /\ rep.kind \in {"empty", "error", "report"}
    /\ ev.a = <<>>
        => /\ rep.kind = "empty"
           /\ rep.event_count = 0
           /\ rep.data_quality_score = 0
    /\ (ev.a # <<>> /\ DecodableEvents(ev) = {})
        => /\ rep.kind = "error"
           /\ rep.code = "NO_VALID_EVENTS"
    /\ DecodableEvents(ev) # {}
        => /\ rep.kind = "report"
           /\ rep.total = Cardinality(DecodableEvents(ev))

\* C21: analyzePattern returns, without throwing, a zero-metrics report with
\* no error code for an empty array, the error NO_VALID_EVENTS for a
\* non-empty array within the limit of which no event decodes to a record
\* with an activity, and a full report when at least one event decodes, the
\* undecodable events being skipped.
C21_BatchOutcomes ==
    (op = "analyze" /\ events.t = "arr")
        => \/ BatchOutcome(events, report)
           \/ /\ events.a # <<>>
              /\ Len(events.a) > (IF maxEvents = Null THEN DEFAULT_MAX_EVENTS ELSE maxEvents.m)

\* C21, for arrays within the limit, the empty array included: an empty
\* array exceeds a negative maxEvents
C21_BatchOutcomesWithinLimit ==
    (/\ op = "analyze"
     /\ events.t = "arr"
     /\ Len(events.a) <= (IF maxEvents = Null THEN DEFAULT_MAX_EVENTS ELSE maxEvents.m))
        => BatchOutcome(events, report)

\* an array within the limit with an event that fails to decode, an event
\* that decodes without an activity and an event with an activity got a
\* report on the one valid event
C21_Witness ==
    /\ op = "analyze"
    /\ events.t = "arr"
    /\ Len(events.a) = 3
    /\ maxEvents = Null
    /\ events.a[1] = E_short
    /\ events.a[2] = Event(<<>>, 3000)
    /\ Cardinality(DecodableEvents(events)) = 1
    /\ report.kind = "report"
    /\ report.total = 1


(***************************************************************************)
(* Properties of the encoder on deep and cyclic arguments                  *)
(***************************************************************************)
\* v with every object at a depth beyond MAX_CONTEXT_DEPTH replaced by the
\* empty text, v itself being at `depth`
RECURSIVE CutBeyond(_, _)
CutBeyond(v, depth) ==
    IF typeof(v) = "object" /\ depth > MAX_CONTEXT_DEPTH THEN Str(<<>>)
    ELSE CASE v.t = "arr" -> Arr([i \in 1..Len(v.a) |-> CutBeyond(v.a[i], depth + 1)])
           [] v.t = "obj" ->
                Obj([i \in 1..Len(v.p) |-> Prop(v.p[i].k, CutBeyond(v.p[i].v, depth + 1))])
           [] OTHER -> v

\* v, at `depth`, holds an object at a depth beyond MAX_CONTEXT_DEPTH
Overflows(v, depth) == v.t \in {"arr", "obj"} /\ deepestCall(v, depth) > MAX_CONTEXT_DEPTH

\* the list levels of the encoded text of a chain of one-element lists, each
\* level being a text inside the list above it, and what the last level holds
RECURSIVE ListLevels(_, _)
ListLevels(v, above) ==
    LET inner(parsed) ==
            IF parsed.ok THEN ListLevels(parsed.v, above + 1)
            ELSE [levels |-> above + 1, holds |-> v.a[1]]
    IN IF v.t # "arr" \/ Len(v.a) # 1 THEN [levels |-> above, holds |-> v]
       ELSE IF v.a[1].t = "str" /\ startsWith(v.a[1].s, "[") THEN inner(JSONparse(v.a[1].s))
       ELSE [levels |-> above + 1, holds |-> v.a[1]]

\* the lists of the model that are nested beyond the limit as a value, and
\* as a context
ListsBeyondValueLimit ==
    {DeepValue(n) : n \in (MAX_CONTEXT_DEPTH + 2)..(ChainDepth + Excess)} \cup {CyclicList}
ListsBeyondContextLimit ==
    {DeepValue(n) : n \in (MAX_CONTEXT_DEPTH + 1)..(ChainDepth + Excess)} \cup {CyclicList}

\* the context that decode reads from the field before the version, taken
\* out of its integrity envelope
WrittenContext(text) ==
    LET fields == split(text)
        unwrapped(c) == IF c.t = "obj" THEN PropertyValue(c.p, <<"d", "a", "t", "a">>) ELSE c
    IN unwrapped(decodeContext(fields[Len(fields) - 1]))

\* C22: for every value and context, those nested deeper than 10 levels and
\* the cyclic ones included, encode terminates: no call of encodeValue has a
\* depth beyond 11.  An object beyond depth 10 is encoded as the empty text
\* inside its parent, and encode still returns an event text.
C22_EncodeTerminatesOnNesting ==
    (op = "encode")
        => /\ deepestCall(value, 0) <= MAX_CONTEXT_DEPTH + 1
           /\ deepestCall(context, 1) <= MAX_CONTEXT_DEPTH + 1
           /\ hdd = Str(encode(activity, CutBeyond(value, 0), CutBeyond(context, 1), version, now))
           /\ (/\ Overflows(value, 0) \/ Overflows(context, 1)
               /\ activity.t = "str"
               /\ activity.s # <<>>)
                => hdd.s # <<>>
           /\ value \in ListsBeyondValueLimit
                => ListLevels(decodeValue(split(hdd.s)[3]), 0)
                        = [levels |-> MAX_CONTEXT_DEPTH + 1, holds |-> Str(<<>>)]
           /\ context \in ListsBeyondContextLimit
                => ListLevels(WrittenContext(hdd.s), 0)
                        = [levels |-> MAX_CONTEXT_DEPTH, holds |-> Str(<<>>)]

\* encode returned an event text for two maps that hold each other
C22_Witness ==
    /\ op = "encode"
    /\ value = CyclicMap
    /\ Overflows(value, 0)
    /\ deepestCall(value, 0) = MAX_CONTEXT_DEPTH + 1
    /\ hdd.s # <<>>


(***************************************************************************)
(* Properties of the complexity analyzer: the depth cap                    *)
(***************************************************************************)
\* the score of a map with n keys, in half points: 1 + min(0.5 * n, 20)
StatedNodeScore(n) == 2 + (IF n > 40 THEN 40 ELSE n)

\* every frame on the work stack has a depth of at most 9
StackWithinCap == \A i \in 1..Len(stack) : stack[i].depth <= 9

\* the chain of maps has been traversed: the maps at depth 0..8 were scored,
\* each once and in order, the map at depth 9 added the penalty 10, and the
\* maps below it were never popped
ChainTraversed ==
    /\ scoreLog = [i \in 1..9 |-> i]
    /\ iterationCount = 10
    /\ complexity = 9 * StatedNodeScore(1) + 2 * 10
    /\ visited = 1..9

\* C23: a map popped at depth 0..8 for the first time adds 1 + min(0.5 * key
\* count, 20); a map popped at depth 9 adds exactly the penalty 10 and none of
\* its keys is pushed; no frame deeper than depth 9 is ever on the work stack;
\* so of a chain of 12 maps those at depth 0..8 are scored, the one at depth
\* 9 adds 10 and those at depth 10 and 11 add nothing.
C23_DepthCap ==
    [][/\ StackWithinCap'
       /\ LoopIteration =>
            /\ (stack[Len(stack)].depth <= 8 /\ stack[Len(stack)].obj \notin visited)
                => /\ complexity' = complexity
                                    + StatedNodeScore(Len(graph.nodes[stack[Len(stack)].obj]))
                   /\ scoreLog' = Append(scoreLog, stack[Len(stack)].obj)
            /\ stack[Len(stack)].depth = 9
                => /\ complexity' = complexity + 2 * 10
                   /\ stack' = SubSeq(stack, 1, Len(stack) - 1)
                   /\ scoreLog' = scoreLog
                   /\ visited' = visited
       /\ (graph' = Chain(ChainDepth) /\ pc' = "done") => ChainTraversed']_vars

\* the chain of 12 maps was measured: 9 maps scored 1.5 each and the tenth
\* added 10
C23_Witness ==
    /\ op = "complexity"
    /\ pc = "done"
    /\ graph = Chain(ChainDepth)
    /\ Len(graph.nodes) >= 12
    /\ ChainTraversed
    /\ result = 47


(***************************************************************************)
(* Properties of the predictor: ties and alternatives                      *)
(***************************************************************************)
\* the positions of acts from which a transition leaves the last activity
\* for a successor with the highest count
TopTransitions(acts) ==
    LET top(outgoing, best) ==
            {i \in outgoing : SuccessorCount(acts, acts[i + 1]) = best}
        among(outgoing) ==
            IF outgoing = {} THEN {}
            ELSE top(outgoing, Max({SuccessorCount(acts, acts[i + 1]) : i \in outgoing}))
    IN among({i \in 1..(Len(acts) - 1) : acts[i] = acts[Len(acts)]})

\* two or more successors of the last activity share the highest count
Tied(acts) == Cardinality({acts[i + 1] : i \in TopTransitions(acts)}) >= 2

\* the successor with the highest count whose transition comes first
FirstEncountered(acts) == acts[Min(TopTransitions(acts)) + 1]

\* no successor of the last activity is labelled with a canonical array
\* index ("0", "7", "12")
PlainSuccessors(acts) ==
    \A i \in 1..(Len(acts) - 1) : acts[i] = acts[Len(acts)] => ~isArrayIndex(acts[i + 1])

TieGoesToFirst(acts, pred) == Tied(acts) => pred.next = Str(FirstEncountered(acts))

\* C24: when two or more successors of the last activity of the window have
\* the same highest transition count, predictNext returns the one whose
\* transition comes first in the window, whatever the labels are, digit
\* strings included.
C24_TieBreakFirstEncountered ==
    (op = "predict" /\ events.t = "arr")
        => TieGoesToFirst(WindowActivities(events, lookback), prediction)

\* C24, for windows in which no successor of the last activity is labelled
\* with a canonical array index: the tie goes to the successor met first
C24_TieBreakPlainLabels ==
    (op = "predict" /\ events.t = "arr")
        => (LET plainTie(acts) == PlainSuccessors(acts) => TieGoesToFirst(acts, prediction)
            IN plainTie(WindowActivities(events, lookback)))

\* the alternatives of a prediction with a next activity: 1 to 3 entries, in
\* order of non-increasing probability, each probability (in hundredths) in
\* (0, 100], the first entry being the prediction with its confidence
AlternativesAgree(pred) ==
    /\ Len(pred.alternatives) \in 1..3
    /\ \A i \in 1..Len(pred.alternatives) : \A j \in i..Len(pred.alternatives) :
          pred.alternatives[i].probability >= pred.alternatives[j].probability
    /\ \A i \in 1..Len(pred.alternatives) :
          /\ pred.alternatives[i].probability > 0
          /\ pred.alternatives[i].probability <= 100
    /\ pred.alternatives[1].activity = pred.next.s
    /\ pred.alternatives[1].probability = pred.confidence

\* C25: whenever predictNext returns a next activity, the alternatives list
\* has 1 to 3 entries, is sorted by non-increasing probability, every
\* probability is in (0, 1], and its first entry is the predicted activity
\* with the reported confidence as its probability.
C25_AlternativesAgree ==
    (op = "predict" /\ prediction.next # Null) => AlternativesAgree(prediction)

\* the last activity had four successors: the alternatives are the three
\* most likely ones, the prediction first, although another successor is
\* enumerated before it
C25_Witness ==
    /\ op = "predict"
    /\ events = BranchingInput
    /\ lookback = Num(MAX_LOOKBACK)
    /\ prediction.next = Str(<<"C">>)
    /\ prediction.confidence = 40
    /\ Len(prediction.alternatives) = 3
    /\ prediction.alternatives[1] = [activity |-> <<"C">>, probability |-> 40]
    /\ prediction.alternatives[2] = [activity |-> <<"1">>, probability |-> 20]
    /\ prediction.alternatives[3] = [activity |-> <<"2">>, probability |-> 20]


(***************************************************************************)
(* Properties of the mutation calls: the timestamp                         *)
(***************************************************************************)
\* the call in hand returned an event text
ReturnedEvent == op \in {"sanitize", "inject"} /\ output.t = "str" /\ output.s # <<>>

\* the event returned decodes to a record stamped with the clock reading of
\* the call
StampedNow == decode(output) # Null /\ decode(output).timestamp = Num(now)

\* C26: the event returned by sanitizeContext or injectContext carries the
\* clock reading of that call as its timestamp, not the timestamp of the
\* input event: for an input with timestamp t and a clock reading c # t the
\* decoded output has timestamp c.
C26_TimestampNotCarriedOver ==
    ReturnedEvent => StampedNow

\* C26, for input events whose activity label, escaped again, holds no
\* separator
C26_TimestampOfPlainLabels ==
    (ReturnedEvent /\ ~containsSeparator(escapeSeparator(decode(event).activity)))
        => StampedNow

====
